---- MODULE Spec2Model ----
(***************************************************************************)
(* Verification model of the whale-watch pipeline.                         *)
(*                                                                         *)
(*  - TokenAcquisitionMonitor: SolanaService.processBlock /                *)
(*    monitorWhaleAddress and the timers it creates (SpecMonitor).         *)
(*  - RateLimitedBatchProcessor: add / processQueue (SpecBatch).           *)
(*  - Circuit breaker of block processing: processBlockWithCircuitBreaker, *)
(*    processBlock, openCircuitBreaker (SpecBreaker).                      *)
(*                                                                         *)
(* The program is single threaded: every action is one run-to-completion   *)
(* segment of a handler, from its start or from the resumption of an await *)
(* to the next await.                                                      *)
(***************************************************************************)
EXTENDS Integers, Sequences, FiniteSets, TLC

\* ------------------------------------------------------------------------
\* Bounds of the model
\* ------------------------------------------------------------------------
Addresses == {"a1"}
Tokens == {"t1"}
\* SOL amounts carried by the transfers of a block
Amounts == {49, 50}
\* transfers observed during one run
MaxTransfers == 2
\* monitoring window (3 600 000 ms) counted in poll periods (8 000 ms)
MonitorWindow == 2
\* changes of the token holdings during one run
MaxHoldingChanges == 1

\* tasks submitted to the batch processor during one run
MaxTasks == 5
\* batchSize of the processor (10 in the services), scaled down
BatchSize == 2
\* block handlers in flight at once
MaxInFlight == 2
\* transactions of a block handed to the processor (at most 50 in the services)
MaxBlockTasks == 2
\* cap of the error counter
MaxErrorCount == 12
\* cool-down of the circuit breaker (5 minutes) in time steps
CooldownSteps == 2
\* cool-down timers pending at once
MaxCooldownTimers == 2

\* transaction hashes seen on the chain
Hashes == {1, 2}
\* block number of the processed block
BlockNumber == 7
\* maxTrackedTransactions (MAX_TRACKED_TRANSACTIONS, 1000 by default), scaled down
maxTrackedTransactions == 3
\* transactions of generateMockData (10 in the service), scaled down
MockTransactions == 2
\* insertions into the history during one run
MaxInsertions == 5
\* transaction lookups in flight at once
MaxLookups == 2
\* timers of generateNewMockTransaction pending at once
MaxMockTimers == 1

\* highest slot the chain reaches during one run
MaxSlot == 3
\* the slot-poll ticks that can be in flight at once
PollTicks == {1, 2}
\* interval timers created by startWhaleMonitoring during one run
MaxPollTimers == 2
\* blocks handed to processBlock during one run
MaxProcessed == 4

\* calls of analyzeToken during one run
MaxAnalyses == 2
\* the clock of the analyzer stops here
MaxClock == 2
\* TOKEN_ANALYSIS_CACHE_DURATION (10 minutes), in clock steps
TOKEN_ANALYSIS_CACHE_DURATION == 1
\* the whales whose tokens are analysed
Whales == {"w1", "w2"}
\* the alerts getActiveAlerts returns (100 in the service), scaled down
MaxAlertsReturned == 1

\* the (chain, token address) keys the sweeps meet
TokenKeys == {"solana-t1", "base-t1"}
\* calls of analyzeNewLaunch and analyzeToken
MaxLaunchCalls == 3
\* pairs of one token
MaxPairs == 2

\* the addresses of the processed transactions
RegistryAddresses == {"0xa", "0xb"}
\* calls of updateWhaleAddress
MaxBalanceCalls == 3

\* the blocks the chain announces
ChainBlocks == {1, 2}
\* WebSocketProvider instances created
MaxProviders == 3
\* timers of reconnect pending
MaxReconnectTimers == 2

\* native units of one coin (10^18 wei, 10^9 lamports), scaled down
UnitsPerCoin == 2
\* largest transaction value, in coins
MaxCoins == 102

\* ------------------------------------------------------------------------
\* Program constants
\* ------------------------------------------------------------------------
WHALE_THRESHOLD_SOL == 50
maxErrors == 10
\* the default of MIN_WHALE_BALANCE_ETH and of MIN_WHALE_BALANCE_BNB
minWhaleBalance == 100
\* a JavaScript number: NaN, an infinity, or a finite value
Number(n) == [kind |-> "number", value |-> n]
NaN == [kind |-> "NaN", value |-> 0]
Infinity == [kind |-> "Infinity", value |-> 0]

\* error?.response?.status of an error without a response
NoStatus == 0
\* fetchWithBackoff: the default attempt cap and base delay (ms)
attempts == 5
baseDelayMs == 500

NoMonitor == [none |-> TRUE]

VARIABLES
    \* --- SolanaService (token acquisition monitor)
    whaleMonitor,     \* Map address -> monitor record
    whaleAddresses,   \* Map address -> tracking record
    monitors,         \* the live closures of monitorWhaleAddress, by the signature that
                      \* started them: timers and captured values
    calls,            \* monitorWhaleAddress calls awaiting the baseline snapshot
    skipped,          \* signatures whose monitorWhaleAddress call logged "Already monitoring"
    ticks,            \* poll ticks in flight
    holdings,         \* chain state: address -> tokens held
    holdingsVersion,  \* number of changes of the holdings so far
    now,              \* Date.now(), in poll periods
    lastReport,       \* (monitor, token) -> poll tick and holdings version of the latest new-token event
    transfers,        \* whale transfers seen so far; the next signature
    \* --- RateLimitedBatchProcessor
    queue,            \* this.queue: the wrappers not yet started, by task number
    processing,       \* this.processing
    loops,            \* the activations of processQueue: where each one waits, and its batch
    operation,        \* task -> state of its asyncOperation
    future,           \* task -> state of the promise add() returned
    \* --- WhaleService / BnbService (circuit breaker)
    errorCount,          \* this.errorCount
    circuitBreakerOpen,  \* this.circuitBreakerOpen
    cooldownTimers,      \* the pending timers of openCircuitBreaker: time left of each
    handlers,            \* processBlockWithCircuitBreaker calls in flight
    badRun,              \* bad-data errors since the last processed block or closing
    \* --- WhaleService (transaction history)
    recentTransactions,  \* this.recentTransactions, newest first
    inserted,            \* the hashes handed to addTransaction so far, newest first
    lookups,             \* queued tasks of the 'pending' and 'block' listeners in flight
    announced,           \* hashes the node has announced as pending
    mined,               \* hashes that came in a block
    mockTimers,          \* pending timers of generateNewMockTransaction
    \* --- SolanaService (slot poll loop)
    whaleMonitoringInterval,  \* this.whaleMonitoringInterval: 0 for null, or the timer
    lastProcessedSlot,        \* this.lastProcessedSlot: 0 for null
    pollTimers,               \* the interval timers that are active
    timersCreated,            \* number of interval timers created so far
    starting,                 \* startWhaleMonitoring calls awaiting getSlot
    slotTicks,                \* ticks of the slot poll in flight
    chainSlot,                \* the slot of the chain
    processedSlots,           \* the slots handed to processBlock, in order
    \* --- SolanaService (token analysis)
    tokenAnalysisCache,  \* Map token -> analysis with its _cachedAt
    activeAlerts,        \* Map alertId -> WhaleAlert, as the set of its values
    analyses,            \* analyzeToken calls in flight
    analysesStarted,     \* number of analyzeToken calls so far
    analyzerNow,         \* Date.now() of the analyzer, in clock steps
    marketRequests,      \* Dexscreener requests of analyzeToken so far
    alertEvents,         \* whale_alert events published so far
    returned,            \* what the analyzeToken call that returned last gave
    durableAlerts,       \* ids of the documents alertModel.create has stored
    tokenAnalysisEvents, \* the (whale, token) of the token_analysis events published so far
    markReturned,        \* what the markAlertAsRead call made last returned
    \* --- whale classification
    classified,          \* the latest transaction given to a classifier, and the answer
    \* --- token scoring
    scored,              \* the pair given to calculateInvestmentScore last, and the results
    risk,                \* the call of determineRiskLevel made last, and the answer
    alerted              \* the score generateWhaleAlert got last, and the alert's level

VARIABLES
    analyzedTokens, trackedTokens, launches, launchCalls, launchStarted, analysesOf, cleared, magnetEvents

VARIABLES
    fetchStage, attemptIndex, attemptLog, delayLog, lastError, fetchOutcome

VARIABLES
    ethPrice, bnbPrice, ethPriceUpdate, bnbPriceUpdate

VARIABLES
    ethWhaleAddresses, balanceCalls, balanceCallsStarted, registryNow, balanceChecks

VARIABLES
    providers, wsProvider, reconnectTimers, delivered, blockStarts

VARIABLES
    launchScored, curveStatus

VARIABLES
    origin, blockHandler, whaleProcessed, blockReport

varsMonitor == <<whaleMonitor, whaleAddresses, monitors, calls, skipped, ticks, holdings,
                 holdingsVersion, now, lastReport, transfers>>

varsBatch == <<queue, processing, loops, operation, future>>

varsBreaker == <<errorCount, circuitBreakerOpen, cooldownTimers, handlers, badRun>>

varsHistory == <<recentTransactions, inserted, lookups, announced, mined, mockTimers>>

varsPoller == <<whaleMonitoringInterval, lastProcessedSlot, pollTimers, timersCreated, starting,
                slotTicks, chainSlot, processedSlots>>

varsAnalyzer == <<tokenAnalysisCache, activeAlerts, analyses, analysesStarted, analyzerNow,
                  marketRequests, alertEvents, returned, durableAlerts, tokenAnalysisEvents,
                  markReturned>>

varsPure == <<classified, scored, risk, alerted>>

varsLaunch == <<analyzedTokens, trackedTokens, launches, launchCalls, launchStarted, analysesOf, cleared, magnetEvents>>

varsBackoff == <<fetchStage, attemptIndex, attemptLog, delayLog, lastError, fetchOutcome>>

varsPrice == <<ethPrice, bnbPrice, ethPriceUpdate, bnbPriceUpdate>>

varsRegistry == <<ethWhaleAddresses, balanceCalls, balanceCallsStarted, registryNow, balanceChecks>>

varsProvider == <<providers, wsProvider, reconnectTimers, delivered, blockStarts>>

varsRisk == <<launchScored, curveStatus>>

varsJoin == <<origin, blockHandler, whaleProcessed, blockReport>>

vars == <<varsMonitor, varsBatch, varsBreaker, varsHistory, varsPoller, varsAnalyzer, varsPure, varsLaunch, varsBackoff, varsPrice, varsRegistry, varsProvider, varsRisk, varsJoin>>

\* ------------------------------------------------------------------------
\* SolanaService: processBlock, monitorWhaleAddress
\* ------------------------------------------------------------------------
MonitorIds == DOMAIN monitors

Init ==
    /\ whaleMonitor = [a \in Addresses |-> NoMonitor]
    /\ whaleAddresses = [a \in Addresses |-> NoMonitor]
    /\ monitors = [id \in {} |-> 0]
    /\ calls = {}
    /\ skipped = {}
    /\ ticks = {}
    /\ holdings \in [Addresses -> {{}, {"t1"}}]
    /\ holdingsVersion = 0
    /\ now = 0
    /\ lastReport = [p \in {} |-> 0]
    /\ transfers = 0
    /\ queue = <<>>
    /\ processing = FALSE
    /\ loops = {}
    /\ operation = <<>>
    /\ future = <<>>
    /\ errorCount = 0
    /\ circuitBreakerOpen = FALSE
    /\ cooldownTimers = <<>>
    /\ handlers = [h \in {} |-> 0]
    /\ badRun = 0
    /\ recentTransactions = [i \in 1..MockTransactions |->
                                [hash |-> 100 + i, status |-> "confirmed",
                                 blockNumber |-> 18500000 + i - 1]]
    /\ inserted = <<>>
    /\ lookups = [j \in {} |-> 0]
    /\ announced = {}
    /\ mined = {}
    /\ mockTimers = 0
    /\ whaleMonitoringInterval = 0
    /\ lastProcessedSlot = 0
    /\ pollTimers = {}
    /\ timersCreated = 0
    /\ starting = 0
    /\ slotTicks = [t \in {} |-> 0]
    /\ chainSlot = 1
    /\ processedSlots = <<>>
    /\ tokenAnalysisCache = [t \in Tokens |-> NoMonitor]
    /\ activeAlerts = {}
    /\ analyses = [c \in {} |-> 0]
    /\ analysesStarted = 0
    /\ analyzerNow = 0
    /\ marketRequests = 0
    /\ alertEvents = 0
    /\ returned = [call |-> 0, kind |-> "none", source |-> "none", cachedAt |-> 0]
    /\ durableAlerts = {}
    /\ tokenAnalysisEvents = {}
    /\ markReturned = "none"
    /\ classified = [engine |-> "none", hasValue |-> FALSE, value |-> 0, result |-> FALSE]
    /\ scored = [done |-> FALSE]
    /\ risk = [done |-> FALSE]
    /\ alerted = [done |-> FALSE]
    /\ origin = <<>>
    /\ blockHandler = [stage |-> "idle", tasks |-> {}]
    /\ whaleProcessed = {}
    /\ blockReport = [done |-> FALSE]
    /\ launchScored = [done |-> FALSE]
    /\ curveStatus = [done |-> FALSE]
    /\ providers = [p \in {1} |-> [listeners |-> TRUE, open |-> TRUE]]
    /\ wsProvider = 1
    /\ reconnectTimers = 0
    /\ delivered = {}
    /\ blockStarts = [b \in ChainBlocks |-> 0]
    /\ ethWhaleAddresses = [a \in RegistryAddresses |-> NoMonitor]
    /\ balanceCalls = [c \in {} |-> 0]
    /\ balanceCallsStarted = 0
    /\ registryNow = 1
    /\ balanceChecks = [a \in RegistryAddresses |-> 0]
    /\ ethPrice = Number(3000)
    /\ bnbPrice = Number(300)
    /\ ethPriceUpdate = "idle"
    /\ bnbPriceUpdate = "idle"
    /\ fetchStage = "idle"
    /\ attemptIndex = 0
    /\ attemptLog = <<>>
    /\ delayLog = <<>>
    /\ lastError = NoStatus
    /\ fetchOutcome = "none"
    /\ analyzedTokens = {}
    /\ trackedTokens = {}
    /\ launches = <<>>
    /\ launchCalls = [c \in {} |-> 0]
    /\ launchStarted = 0
    /\ analysesOf = [k \in TokenKeys |-> 0]
    /\ cleared = FALSE
    /\ magnetEvents = [key \in TokenKeys |-> [new_launch |-> 0, whale_magnet |-> 0]]

\* the parts of the state an operation of one component leaves alone
MonitorOnly ==
    UNCHANGED <<varsBatch, varsBreaker, varsHistory, varsPoller, varsAnalyzer, varsPure, varsLaunch, varsBackoff, varsPrice, varsRegistry, varsProvider, varsRisk, varsJoin>>
BatchOnly ==
    UNCHANGED <<varsMonitor, varsBreaker, varsHistory, varsPoller, varsAnalyzer, varsPure, varsLaunch, varsBackoff, varsPrice, varsRegistry, varsProvider, varsRisk, varsJoin>>
BreakerOnly ==
    UNCHANGED <<varsMonitor, varsBatch, varsHistory, varsPoller, varsAnalyzer, varsPure, varsLaunch, varsBackoff, varsPrice, varsRegistry, varsProvider, varsRisk, varsJoin>>
HistoryOnly ==
    UNCHANGED <<varsMonitor, varsBatch, varsBreaker, varsPoller, varsAnalyzer, varsPure, varsLaunch, varsBackoff, varsPrice, varsRegistry, varsProvider, varsRisk, varsJoin>>
PollerOnly ==
    UNCHANGED <<varsMonitor, varsBatch, varsBreaker, varsHistory, varsAnalyzer, varsPure, varsLaunch, varsBackoff, varsPrice, varsRegistry, varsProvider, varsRisk, varsJoin>>
AnalyzerOnly ==
    UNCHANGED <<varsMonitor, varsBatch, varsBreaker, varsHistory, varsPoller, varsPure, varsLaunch, varsBackoff, varsPrice, varsRegistry, varsProvider, varsRisk, varsJoin>>
LaunchOnly ==
    UNCHANGED <<varsMonitor, varsBatch, varsBreaker, varsHistory, varsPoller, varsAnalyzer, varsPure, varsBackoff, varsPrice, varsRegistry, varsProvider, varsRisk, varsJoin>>

BackoffOnly ==
    UNCHANGED <<varsMonitor, varsBatch, varsBreaker, varsHistory, varsPoller, varsAnalyzer, varsPure, varsLaunch, varsPrice, varsRegistry, varsProvider, varsRisk, varsJoin>>

PriceOnly ==
    UNCHANGED <<varsMonitor, varsBatch, varsBreaker, varsHistory, varsPoller, varsAnalyzer, varsPure, varsLaunch, varsBackoff, varsRegistry, varsProvider, varsRisk, varsJoin>>

RegistryOnly ==
    UNCHANGED <<varsMonitor, varsBatch, varsBreaker, varsHistory, varsPoller, varsAnalyzer, varsPure, varsLaunch, varsBackoff, varsPrice, varsProvider, varsRisk, varsJoin>>

ProviderOnly ==
    UNCHANGED <<varsMonitor, varsBatch, varsBreaker, varsHistory, varsPoller, varsAnalyzer, varsPure, varsLaunch, varsBackoff, varsPrice, varsRegistry, varsRisk, varsJoin>>

RiskOnly ==
    UNCHANGED <<varsMonitor, varsBatch, varsBreaker, varsHistory, varsPoller, varsAnalyzer, varsPure, varsLaunch, varsBackoff, varsPrice, varsRegistry, varsProvider, varsJoin>>

JoinOnly ==
    UNCHANGED <<varsMonitor, varsBatch, varsBreaker, varsHistory, varsPoller, varsAnalyzer, varsPure, varsLaunch, varsBackoff, varsPrice, varsRegistry, varsProvider, varsRisk>>

PureOnly ==
    UNCHANGED <<varsMonitor, varsBatch, varsBreaker, varsHistory, varsPoller, varsAnalyzer, varsLaunch, varsBackoff, varsPrice, varsRegistry, varsProvider, varsRisk, varsJoin>>

\* Map.has
Has(map, address) == map[address] # NoMonitor

\* A block: a sequence of system-program transfers [to, amountSol]
Blocks ==
    UNION {[1..n -> [to : Addresses, amountSol : Amounts]] : n \in 1..MaxTransfers}

\* mutant: monitorWhaleAddress without its exclusivity test
MonitorWhaleAddressEnterUntested(st, address, amountSol, transactionHash) ==
    [st EXCEPT !.calls = @ \cup {[address |-> address, amountSol |-> amountSol,
                                   transactionHash |-> transactionHash]}]

\* monitorWhaleAddress up to its first await: the exclusivity test, then the
\* request for the baseline snapshot. st holds the pending calls and the
\* calls that returned at the test.
MonitorWhaleAddressEnter(st, address, amountSol, transactionHash) ==
    IF Has(whaleMonitor, address)
    THEN [st EXCEPT !.skipped = @ \cup {transactionHash}]
    ELSE [st EXCEPT !.calls = @ \cup {[address |-> address, amountSol |-> amountSol,
                                        transactionHash |-> transactionHash]}]

\* the loop of processBlock over the transfers of a block; the calls of
\* monitorWhaleAddress are not awaited
RECURSIVE ProcessTransfers(_, _, _, _)
ProcessTransfers(block, i, st, sig) ==
    IF i > Len(block)
    THEN st
    ELSE IF block[i].amountSol >= WHALE_THRESHOLD_SOL
         THEN ProcessTransfers(block, i + 1,
                  MonitorWhaleAddressEnter(st, block[i].to, block[i].amountSol, sig + i),
                  sig)
         ELSE ProcessTransfers(block, i + 1, st, sig)

ProcessBlock(block) ==
    LET st == ProcessTransfers(block, 1, [calls |-> calls, skipped |-> skipped], transfers)
    IN
    /\ transfers + Len(block) <= MaxTransfers
    /\ calls' = st.calls
    /\ skipped' = st.skipped
    /\ transfers' = transfers + Len(block)
    /\ UNCHANGED <<whaleMonitor, whaleAddresses, monitors, ticks, holdings,
                   holdingsVersion, now, lastReport>>
    /\ MonitorOnly

\* getTokensByOwner: the tokens held, or the empty set when the RPC call fails
TokensByOwner(address) == {holdings[address], {}}

\* monitorWhaleAddress after the baseline snapshot: tracking record, poll
\* timer, expiry timer, monitor record
MonitorWhaleAddressResume(c, initialTokens) ==
    LET id == c.transactionHash IN
    /\ c \in calls
    /\ calls' = calls \ {c}
    /\ whaleAddresses' = [whaleAddresses EXCEPT ![c.address] =
           [balance |-> c.amountSol, lastSeen |-> now,
            tokenCount |-> Cardinality(initialTokens), totalValue |-> c.amountSol * 100]]
    /\ monitors' = [i \in MonitorIds \cup {id} |->
           IF i = id
           THEN [address |-> c.address, initialTokens |-> initialTokens,
                 amountSol |-> c.amountSol, transactionHash |-> c.transactionHash,
                 intervalActive |-> TRUE, pollIn |-> 1,
                 timeoutPending |-> TRUE, expiresIn |-> MonitorWindow,
                 tickCount |-> 0]
           ELSE monitors[i]]
    /\ whaleMonitor' = [whaleMonitor EXCEPT ![c.address] =
           [initialTokens |-> initialTokens, amountSol |-> c.amountSol,
            monitoringTimeout |-> id, transactionHash |-> c.transactionHash,
            startTime |-> now]]
    /\ UNCHANGED <<skipped, ticks, holdings, holdingsVersion, now, lastReport, transfers>>
    /\ MonitorOnly

MonitorResume ==
    \E c \in calls : \E initialTokens \in TokensByOwner(c.address) :
        MonitorWhaleAddressResume(c, initialTokens)

\* the closures that a timer or a poll tick in flight still refers to; the
\* others are garbage
Reachable(ms, tk) ==
    {id \in DOMAIN ms :
        ms[id].intervalActive \/ ms[id].timeoutPending \/ \E k \in tk : k.monitor = id}

Collect(ms, tk) == [id \in Reachable(ms, tk) |-> ms[id]]

CollectReports(reports, ms, tk) ==
    [p \in {q \in DOMAIN reports : q[1] \in Reachable(ms, tk)} |-> reports[p]]

\* the setInterval callback up to its first await
PollTick(id) ==
    /\ id \in MonitorIds
    /\ monitors[id].intervalActive
    /\ monitors[id].pollIn = 0
    /\ monitors' = [monitors EXCEPT ![id].pollIn = 1,
                                    ![id].tickCount = @ + 1]
    /\ ticks' = ticks \cup {[monitor |-> id, tick |-> monitors[id].tickCount + 1,
                             stage |-> "fetch", todo |-> {}, currentCount |-> 0,
                             version |-> 0]}
    /\ UNCHANGED <<whaleMonitor, whaleAddresses, calls, skipped, holdings,
                   holdingsVersion, now, lastReport, transfers>>
    /\ MonitorOnly

\* the update of the tracking record that ends a poll tick
UpdateWhaleTracking(address, count) ==
    IF Has(whaleAddresses, address)
    THEN [whaleAddresses EXCEPT ![address].lastSeen = now,
                                ![address].tokenCount = count]
    ELSE whaleAddresses

\* the tokens a poll tick reports: the current holdings that are not in the
\* baseline captured when the monitor started
NewTokens(currentTokens, initialTokens) == currentTokens \ initialTokens

\* the poll tick after getTokensByOwner: the difference with the baseline
PollFetched(k, currentTokens) ==
    LET m == monitors[k.monitor]
        newTokens == NewTokens(currentTokens, m.initialTokens)
    IN
    /\ k \in ticks
    /\ k.stage = "fetch"
    /\ IF newTokens = {}
       THEN /\ ticks' = ticks \ {k}
            /\ whaleAddresses' = UpdateWhaleTracking(m.address, Cardinality(currentTokens))
            /\ monitors' = Collect(monitors, ticks')
            /\ lastReport' = CollectReports(lastReport, monitors, ticks')
       ELSE /\ ticks' = (ticks \ {k}) \cup
                  {[k EXCEPT !.stage = "report", !.todo = newTokens,
                             !.currentCount = Cardinality(currentTokens),
                             !.version = holdingsVersion]}
            /\ UNCHANGED <<whaleAddresses, monitors, lastReport>>
    /\ UNCHANGED <<whaleMonitor, calls, skipped, holdings, holdingsVersion, now,
                   transfers>>
    /\ MonitorOnly

PollFetch ==
    \E k \in ticks : \E currentTokens \in TokensByOwner(monitors[k.monitor].address) :
        PollFetched(k, currentTokens)

\* events of one new token: checkAndLogTokenDetails emits token_analysis when
\* the analysis is not null, checkTokenForBuy emits token_buy_analysis when a
\* pair with liquidity exists
TokenEvents(k, token, analysed, pairFound) ==
    {[type |-> "token_analysis", monitor |-> k.monitor, token |-> token,
      tick |-> k.tick] : x \in {y \in {1} : analysed}}
    \cup
    {[type |-> "token_buy_analysis", monitor |-> k.monitor, token |-> token,
      tick |-> k.tick] : x \in {y \in {1} : pairFound}}

\* one iteration of the loop over the new tokens of a poll tick
PollReported(k, token, analysed, pairFound) ==
    LET m == monitors[k.monitor]
        key == <<k.monitor, token>>
    IN
    /\ k \in ticks
    /\ k.stage = "report"
    /\ token \in k.todo
    /\ IF k.todo = {token}
       THEN /\ ticks' = ticks \ {k}
            /\ whaleAddresses' = UpdateWhaleTracking(m.address, k.currentCount)
       ELSE /\ ticks' = (ticks \ {k}) \cup {[k EXCEPT !.todo = @ \ {token}]}
            /\ UNCHANGED whaleAddresses
    /\ monitors' = Collect(monitors, ticks')
    /\ lastReport' = CollectReports(
           IF TokenEvents(k, token, analysed, pairFound) # {}
           THEN [p \in DOMAIN lastReport \cup {key} |->
                    IF p = key THEN [tick |-> k.tick, version |-> k.version]
                    ELSE lastReport[p]]
           ELSE lastReport,
           monitors, ticks')
    /\ UNCHANGED <<whaleMonitor, calls, skipped, holdings, holdingsVersion, now,
                   transfers>>
    /\ MonitorOnly

PollReport ==
    \E k \in ticks : \E token \in k.todo : \E analysed, pairFound \in BOOLEAN :
        PollReported(k, token, analysed, pairFound)

\* mutant: the expiry callback without clearInterval
MonitorExpireKeepsPolling(id) ==
    /\ id \in MonitorIds
    /\ monitors[id].timeoutPending
    /\ monitors[id].expiresIn = 0
    /\ monitors' = [monitors EXCEPT ![id].timeoutPending = FALSE]
    /\ whaleMonitor' = [whaleMonitor EXCEPT ![monitors[id].address] = NoMonitor]
    /\ UNCHANGED <<whaleAddresses, calls, skipped, ticks, holdings, holdingsVersion,
                   now, lastReport, transfers>>
    /\ MonitorOnly

\* the setTimeout callback: clearInterval, whaleMonitor.delete
MonitorExpire(id) ==
    /\ id \in MonitorIds
    /\ monitors[id].timeoutPending
    /\ monitors[id].expiresIn = 0
    /\ monitors' = Collect([monitors EXCEPT ![id].intervalActive = FALSE,
                                            ![id].timeoutPending = FALSE], ticks)
    /\ lastReport' = CollectReports(lastReport, monitors', ticks)
    /\ whaleMonitor' = [whaleMonitor EXCEPT ![monitors[id].address] = NoMonitor]
    /\ UNCHANGED <<whaleAddresses, calls, skipped, ticks, holdings, holdingsVersion,
                   now, transfers>>
    /\ MonitorOnly

\* a timer that is armed
TimerArmed == \E id \in MonitorIds : monitors[id].timeoutPending \/ monitors[id].intervalActive

\* a timer that is due: the event loop runs it before time passes
TimerDue ==
    \E id \in MonitorIds :
        \/ monitors[id].timeoutPending /\ monitors[id].expiresIn = 0
        \/ monitors[id].intervalActive /\ monitors[id].pollIn = 0

\* one poll period passes. Time is observed through the timers and through
\* startTime and lastSeen only, so it is let pass while a timer is armed; the
\* RPC and HTTP calls of a poll tick answer within the poll period.
Advance ==
    /\ ~TimerDue
    /\ TimerArmed
    /\ ticks = {}
    /\ now' = now + 1
    /\ monitors' = [id \in MonitorIds |->
           [monitors[id] EXCEPT
               !.pollIn = IF monitors[id].intervalActive THEN @ - 1 ELSE @,
               !.expiresIn = IF monitors[id].timeoutPending THEN @ - 1 ELSE @]]
    /\ UNCHANGED <<whaleMonitor, whaleAddresses, calls, skipped, ticks, holdings,
                   holdingsVersion, lastReport, transfers>>
    /\ MonitorOnly

\* the chain: the address acquires or disposes of a token
HoldingsChange ==
    /\ holdingsVersion < MaxHoldingChanges
    /\ \E a \in Addresses, t \in Tokens :
          holdings' = [holdings EXCEPT ![a] =
                          IF t \in @ THEN @ \ {t} ELSE @ \cup {t}]
    /\ holdingsVersion' = holdingsVersion + 1
    /\ UNCHANGED <<whaleMonitor, whaleAddresses, monitors, calls, skipped, ticks,
                   now, lastReport, transfers>>
    /\ MonitorOnly

NextMonitor ==
    \/ \E block \in Blocks : ProcessBlock(block)
    \/ MonitorResume
    \/ \E id \in MonitorIds : PollTick(id)
    \/ PollFetch
    \/ PollReport
    \/ \E id \in MonitorIds : MonitorExpire(id)
    \/ Advance
    \/ HoldingsChange

SpecMonitor == Init /\ [][NextMonitor]_vars

\* timers fire, RPC calls answer
FairSpecMonitor ==
    /\ SpecMonitor
    /\ WF_vars(Advance)
    /\ WF_vars(PollFetch)
    /\ WF_vars(PollReport)
    /\ \A id \in 1..MaxTransfers : WF_vars(PollTick(id)) /\ WF_vars(MonitorExpire(id))

\* ------------------------------------------------------------------------
\* Claims on the token acquisition monitor
\* ------------------------------------------------------------------------
\* a monitor whose poll timer or expiry timer is armed
Active(id) ==
    id \in MonitorIds /\ (monitors[id].intervalActive \/ monitors[id].timeoutPending)

\* C1: for every address at most one monitor (one poll timer, one expiry
\* timer) is active at any moment, whatever the interleaving of block
\* processing and baseline snapshots.
C1_AtMostOneMonitorPerAddress ==
    \A a \in Addresses :
        Cardinality({id \in MonitorIds : monitors[id].address = a /\ Active(id)}) <= 1

\* C2: monitorWhaleAddress for an address that has a monitor record is a
\* no-op: the record (baseline, amount, signature, start time, expiry timer)
\* stays as it is, no snapshot is requested and no timer is created, then or
\* later, on behalf of that call.
C2_AlreadyMonitoredIsNoOp ==
    /\ [][\A block \in Blocks :
             ProcessBlock(block) =>
                /\ whaleMonitor' = whaleMonitor
                /\ monitors' = monitors
                /\ \A c \in calls' \ calls : ~Has(whaleMonitor, c.address)]_vars
    /\ [](\A sig \in skipped :
             /\ sig \notin MonitorIds
             /\ \A c \in calls : c.transactionHash # sig
             /\ \A a \in Addresses :
                   Has(whaleMonitor, a) => whaleMonitor[a].transactionHash # sig)

C2_Witness ==
    /\ skipped # {}
    /\ \E a \in Addresses : Has(whaleMonitor, a)

\* the timers of the monitor are gone and the map holds no record of it
Destroyed(sig) ==
    /\ ~Active(sig)
    /\ \A a \in Addresses : Has(whaleMonitor, a) => whaleMonitor[a].monitoringTimeout # sig

\* C3: every monitor that is started is destroyed when its window elapses,
\* whether or not it reported a token: the expiry cancels its poll timer and
\* leaves no record at its address, and no poll tick of it starts afterwards.
C3_MonitorExpires ==
    /\ \A sig \in 1..MaxTransfers : Active(sig) ~> Destroyed(sig)
    /\ [][\A id \in MonitorIds : PollTick(id) => monitors[id].timeoutPending]_vars
    /\ [][\A id \in MonitorIds :
             MonitorExpire(id) =>
                /\ monitors[id].expiresIn = 0
                /\ ~Has(whaleMonitor', monitors[id].address)
                /\ id \in DOMAIN monitors' => ~monitors'[id].intervalActive]_vars

C3_Witness ==
    /\ now >= MonitorWindow
    /\ MonitorIds = {}
    /\ calls = {}
    /\ \E a \in Addresses : Has(whaleAddresses, a) /\ ~Has(whaleMonitor, a)

\* C4: once a token absent from the baseline has been reported by a poll
\* tick of a monitor, a later poll tick on which the holdings are unchanged
\* emits no further new-token event for it.
C4_NoRepeatedReport ==
    [][\A p \in DOMAIN lastReport \cap DOMAIN lastReport' :
          lastReport'[p] # lastReport[p] =>
             ~(lastReport'[p].tick > lastReport[p].tick
               /\ lastReport'[p].version = lastReport[p].version)]_vars

\* ------------------------------------------------------------------------
\* RateLimitedBatchProcessor: add, processQueue
\* ------------------------------------------------------------------------
Tasks == DOMAIN operation

Min(a, b) == IF a < b THEN a ELSE b

SeqToSet(q) == {q[i] : i \in 1..Len(q)}

\* queue.splice(0, batchSize): the batch taken and what stays queued
Splice(q) ==
    [batch |-> SubSeq(q, 1, Min(BatchSize, Len(q))),
     rest |-> SubSeq(q, Min(BatchSize, Len(q)) + 1, Len(q))]

\* mutant: add() calls processQueue whatever the flag says
AddStartsDrainAlways == TRUE

\* the test of add() before it calls processQueue
AddStartsDrain == ~processing

\* mutant: Promise.race in place of Promise.all
BatchSettledAny(batch) == \E t \in batch : operation[t] \in {"resolved", "rejected"}

\* Promise.all over the wrappers of a batch: no wrapper rejects, so it settles
\* when every operation of the batch has settled
BatchSettled(batch) == \A t \in batch : operation[t] \in {"resolved", "rejected"}

\* mutant: a wrapper without the catch clause never settles the promise of an
\* operation that rejects
WrapperNoCatch(outcome) == IF outcome = "rejected" THEN "pending" ELSE "resolved"

\* the wrapper add() queues: its promise follows the outcome of its operation
Wrapper(outcome) == IF outcome = "rejected" THEN "rejected" ELSE "resolved"

\* one turn of the while loop of processQueue up to the await of the batch:
\* take a batch, start its operations
TakeBatch(q, ops, ls) ==
    LET sp == Splice(q)
        batch == SeqToSet(sp.batch)
    IN [queue |-> sp.rest,
        operation |-> [t \in DOMAIN ops |-> IF t \in batch THEN "running" ELSE ops[t]],
        loops |-> ls \cup {[pc |-> "batch", batch |-> batch]}]

\* add(asyncOperation): queue the wrapper; start processQueue unless a drain
\* loop is in progress
Add ==
    LET t == Len(operation) + 1
        q == Append(queue, t)
        ops == Append(operation, "queued")
        started == TakeBatch(q, ops, loops)
    IN
    /\ t <= MaxTasks
    /\ future' = Append(future, "pending")
    /\ IF AddStartsDrain
       THEN /\ processing' = TRUE
            /\ queue' = started.queue
            /\ operation' = started.operation
            /\ loops' = started.loops
       ELSE /\ queue' = q
            /\ operation' = ops
            /\ UNCHANGED <<processing, loops>>
    /\ BatchOnly

\* an operation of the current batch ends: its wrapper settles the promise
Settle(t, outcome) ==
    /\ t \in Tasks
    /\ operation[t] = "running"
    /\ operation' = [operation EXCEPT ![t] = outcome]
    /\ future' = [future EXCEPT ![t] = Wrapper(outcome)]
    /\ UNCHANGED <<queue, processing, loops>>
    /\ BatchOnly

\* processQueue after the await of the batch: the delay when work remains,
\* or the end of the loop
AfterBatch(l) ==
    /\ l \in loops
    /\ l.pc = "batch"
    /\ BatchSettled(l.batch)
    /\ IF Len(queue) > 0
       THEN /\ loops' = (loops \ {l}) \cup {[l EXCEPT !.pc = "delay"]}
            /\ UNCHANGED processing
       ELSE /\ loops' = loops \ {l}
            /\ processing' = FALSE
    /\ UNCHANGED <<queue, operation, future>>
    /\ BatchOnly

\* processQueue after the delay: the next turn of the while loop
AfterDelay(l) ==
    LET started == TakeBatch(queue, operation, loops \ {l}) IN
    /\ l \in loops
    /\ l.pc = "delay"
    /\ IF Len(queue) > 0
       THEN /\ queue' = started.queue
            /\ operation' = started.operation
            /\ loops' = started.loops
            /\ UNCHANGED processing
       ELSE /\ loops' = loops \ {l}
            /\ processing' = FALSE
            /\ UNCHANGED <<queue, operation>>
    /\ UNCHANGED future
    /\ BatchOnly

NextBatch ==
    \/ Add
    \/ \E t \in Tasks, outcome \in {"resolved", "rejected"} : Settle(t, outcome)
    \/ \E l \in loops : AfterBatch(l)
    \/ \E l \in loops : AfterDelay(l)

SpecBatch == Init /\ [][NextBatch]_vars

\* operations terminate, the delay elapses, continuations run
FairSpecBatch ==
    /\ SpecBatch
    /\ \A t \in 1..MaxTasks : WF_vars(\E outcome \in {"resolved", "rejected"} : Settle(t, outcome))
    /\ WF_vars(\E l \in loops : AfterBatch(l))
    /\ WF_vars(\E l \in loops : AfterDelay(l))

\* ------------------------------------------------------------------------
\* WhaleService / BnbService: processBlockWithCircuitBreaker, processBlock,
\* openCircuitBreaker
\* ------------------------------------------------------------------------
HandlerIds == DOMAIN handlers

\* what provider.getBlock gives: no block, a block with n transaction hashes
\* (of which the first 50 are processed), or an exception with its code
GetBlockResults ==
    {[kind |-> "null"]}
    \cup {[kind |-> "block", transactions |-> n] : n \in 0..MaxBlockTasks}
    \cup {[kind |-> "error", code |-> c] : c \in {"BAD_DATA", "OTHER"}}

\* the test of the catch clause of processBlockWithCircuitBreaker, on the
\* counter already incremented
Trips(code, count) == code = "BAD_DATA" /\ count >= maxErrors

\* the 'block' listener: processBlockWithCircuitBreaker up to the await of
\* provider.getBlock in processBlock. While the breaker is open it returns.
BlockNotification(h) ==
    /\ h \in 1..MaxInFlight
    /\ h \notin HandlerIds
    /\ IF circuitBreakerOpen
       THEN UNCHANGED handlers
       ELSE handlers' = [i \in HandlerIds \cup {h} |->
                            IF i = h THEN [stage |-> "getBlock", left |-> 0]
                            ELSE handlers[i]]
    /\ UNCHANGED <<errorCount, circuitBreakerOpen, cooldownTimers, badRun>>
    /\ BreakerOnly

Release(h) == [i \in HandlerIds \ {h} |-> handlers[i]]

\* openCircuitBreaker without its setTimeout
OpenCircuitBreakerNoTimer(timers) == timers

\* openCircuitBreaker: the flag, and a new timer
OpenCircuitBreaker(timers) == Append(timers, CooldownSteps)

\* provider.getBlock answers. No block: processBlock returns, the counter is
\* reset. A block: its transactions go to the rate limited processor and
\* processBlock awaits them all. An exception: processBlock rethrows it and
\* the catch clause of processBlockWithCircuitBreaker counts it.
GetBlockAnswers(h, r) ==
    /\ h \in HandlerIds
    /\ handlers[h].stage = "getBlock"
    /\ CASE r.kind = "null" ->
              /\ handlers' = Release(h)
              /\ errorCount' = 0
              /\ badRun' = 0
              /\ UNCHANGED <<circuitBreakerOpen, cooldownTimers>>
         [] r.kind = "block" ->
              /\ handlers' = [handlers EXCEPT ![h] = [stage |-> "tasks", left |-> r.transactions]]
              /\ UNCHANGED <<errorCount, badRun, circuitBreakerOpen, cooldownTimers>>
         [] r.kind = "error" ->
              /\ errorCount < MaxErrorCount
              /\ Trips(r.code, errorCount + 1) => Len(cooldownTimers) < MaxCooldownTimers
              /\ handlers' = Release(h)
              /\ errorCount' = errorCount + 1
              /\ badRun' = IF r.code = "BAD_DATA" THEN badRun + 1 ELSE badRun
              /\ IF Trips(r.code, errorCount + 1)
                 THEN /\ circuitBreakerOpen' = TRUE
                      /\ cooldownTimers' = OpenCircuitBreaker(cooldownTimers)
                 ELSE UNCHANGED <<circuitBreakerOpen, cooldownTimers>>
    /\ BreakerOnly

\* a queued task of the block starts: provider.getTransaction is called. Its
\* outcome does not reach processBlock (Promise.allSettled).
GetTransaction(h) ==
    /\ h \in HandlerIds
    /\ handlers[h].stage = "tasks"
    /\ handlers[h].left > 0
    /\ handlers' = [handlers EXCEPT ![h].left = @ - 1]
    /\ UNCHANGED <<errorCount, circuitBreakerOpen, cooldownTimers, badRun>>
    /\ BreakerOnly

\* every task of the block has settled: processBlock returns and
\* processBlockWithCircuitBreaker resets the counter
BlockProcessed(h) ==
    /\ h \in HandlerIds
    /\ handlers[h].stage = "tasks"
    /\ handlers[h].left = 0
    /\ handlers' = Release(h)
    /\ errorCount' = 0
    /\ badRun' = 0
    /\ UNCHANGED <<circuitBreakerOpen, cooldownTimers>>
    /\ BreakerOnly

\* the timer of openCircuitBreaker fires
CooldownElapsed(i) ==
    /\ i \in DOMAIN cooldownTimers
    /\ cooldownTimers[i] = 0
    /\ cooldownTimers' = [j \in 1..(Len(cooldownTimers) - 1) |->
                             IF j < i THEN cooldownTimers[j] ELSE cooldownTimers[j + 1]]
    /\ circuitBreakerOpen' = FALSE
    /\ errorCount' = 0
    /\ badRun' = 0
    /\ UNCHANGED handlers
    /\ BreakerOnly

\* time passes for the pending timers; a timer that is due fires first
CooldownAdvance ==
    /\ Len(cooldownTimers) > 0
    /\ \A i \in DOMAIN cooldownTimers : cooldownTimers[i] > 0
    /\ cooldownTimers' = [i \in DOMAIN cooldownTimers |-> cooldownTimers[i] - 1]
    /\ UNCHANGED <<errorCount, circuitBreakerOpen, handlers, badRun>>
    /\ BreakerOnly

NextBreaker ==
    \/ \E h \in 1..MaxInFlight : BlockNotification(h)
    \/ \E h \in HandlerIds, r \in GetBlockResults : GetBlockAnswers(h, r)
    \/ \E h \in HandlerIds : GetTransaction(h)
    \/ \E h \in HandlerIds : BlockProcessed(h)
    \/ \E i \in DOMAIN cooldownTimers : CooldownElapsed(i)
    \/ CooldownAdvance

SpecBreaker == Init /\ [][NextBreaker]_vars

\* the timers of openCircuitBreaker run: time passes and a due timer fires
FairSpecBreaker ==
    /\ SpecBreaker
    /\ WF_vars(CooldownAdvance)
    /\ WF_vars(\E i \in DOMAIN cooldownTimers : CooldownElapsed(i))

\* ------------------------------------------------------------------------
\* Claims on the rate limited batch processor
\* ------------------------------------------------------------------------
Settled(t) == operation[t] \in {"resolved", "rejected"}

Running == {t \in Tasks : operation[t] = "running"}

\* C5: at most one activation of processQueue exists at any time, whenever
\* add() is called; the flag says whether one exists.
C5_SingleDrainLoop ==
    /\ Cardinality(loops) <= 1
    /\ processing <=> loops # {}

C5_Witness ==
    /\ Cardinality(loops) = 1
    /\ Len(queue) > 0
    /\ Running # {}

\* C6: an operation that rejects rejects its own promise and no other; every
\* task submitted is started and its promise settled in the end, and the
\* drain loop ends with the flag false and the queue empty.
C6_RejectionIsLocal ==
    /\ \A t \in 1..MaxTasks : (t \in Tasks) ~> (t \in Tasks /\ future[t] \in {"resolved", "rejected"})
    /\ [](\A t \in Tasks : Settled(t) => future[t] = operation[t])
    /\ [](\A t \in Tasks : future[t] # "pending" => future[t] = operation[t])
    /\ [](loops = {} => ~processing /\ queue = <<>>)
    /\ []<>(~processing /\ queue = <<>>)

C6_Witness ==
    /\ ~processing
    /\ \E t1, t2, t3 \in Tasks :
          /\ t1 < t2 /\ t2 < t3
          /\ future[t1] = "resolved" /\ future[t2] = "rejected" /\ future[t3] = "resolved"

\* C7: tasks leave the queue in submission order in batches of at most
\* batchSize; a batch starts only when every task of the batch before it has
\* settled; after a batch the loop waits the delay if and only if the queue
\* is not empty then.
C7_BatchesInOrder ==
    /\ [](\A i \in 1..Len(queue) :
             /\ queue[i] = Len(operation) - Len(queue) + i
             /\ operation[queue[i]] = "queued")
    /\ [](\A t \in Tasks : operation[t] = "queued" => t > Len(operation) - Len(queue))
    /\ [](Cardinality(Running) <= BatchSize)
    /\ [](\A l \in loops :
             /\ Cardinality(l.batch) <= BatchSize
             /\ l.pc = "batch" => Running \subseteq l.batch
             /\ l.pc = "delay" => Running = {})
    /\ [][\A l \in loops :
             AfterBatch(l) => (Len(queue) > 0 <=> [l EXCEPT !.pc = "delay"] \in loops')]_vars

C7_Witness ==
    \E l \in loops :
        /\ l.pc = "batch"
        /\ \E t \in l.batch : t > BatchSize
        /\ Cardinality(l.batch) = BatchSize
        /\ Running # {}
        /\ Len(queue) > 0

\* ------------------------------------------------------------------------
\* Claims on the circuit breaker
\* ------------------------------------------------------------------------
\* C8: the breaker goes from closed to open exactly when the tenth
\* consecutive bad-data error of block processing occurs with no processed
\* block in between.
C8_OpensAtTenthBadDataError ==
    [][(~circuitBreakerOpen /\ circuitBreakerOpen')
          <=> (~circuitBreakerOpen /\ badRun = maxErrors - 1 /\ badRun' = maxErrors)]_vars

\* C9: an error of block processing outside the bad-data class leaves the
\* error counter as it is.
C9_OtherErrorsNotCounted ==
    [][\A h \in HandlerIds :
          GetBlockAnswers(h, [kind |-> "error", code |-> "OTHER"])
             => errorCount' = errorCount]_vars

\* C10: while the breaker is open no getBlock and no getTransaction call is
\* issued on behalf of block processing.
C10_NoRpcWhileOpen ==
    [][(\E h \in 1..MaxInFlight :
           \/ GetTransaction(h)
           \/ BlockNotification(h) /\ h \in DOMAIN handlers')
          => ~circuitBreakerOpen]_vars

\* C11: an open breaker has a cool-down timer pending, it is closed again
\* once the cool-down has elapsed, and at the step that closes it the error
\* counter is zero.
C11_BreakerCloses ==
    /\ [](circuitBreakerOpen => Len(cooldownTimers) > 0)
    /\ circuitBreakerOpen ~> ~circuitBreakerOpen
    /\ [][(circuitBreakerOpen /\ ~circuitBreakerOpen') => errorCount' = 0]_vars

\* the breaker was opened twice during one open period and the first timer
\* has closed it: the second timer is still pending
C11_Witness ==
    /\ ~circuitBreakerOpen
    /\ errorCount = 0
    /\ Len(cooldownTimers) > 0

\* ------------------------------------------------------------------------
\* WhaleService: the transaction history (recentTransactions)
\* ------------------------------------------------------------------------
LookupIds == DOMAIN lookups

\* what provider.getTransaction gives a queued task: nothing usable (null, a
\* value that is not a whale's, or an exception), or a whale transaction:
\* without call data, or with call data. blockNumber is null until it is mined.
TransactionResults ==
    {[kind |-> "none", blockNumber |-> 0]}
    \cup {[kind |-> k, blockNumber |-> b] : k \in {"plain", "contract"}, b \in {0, BlockNumber}}

\* the record processWhaleTransaction builds
WhaleTransaction(hash, blockNumber) ==
    [hash |-> hash, status |-> "pending", blockNumber |-> blockNumber]

\* addTransaction that appends and never trims
AddTransactionAtEnd(list, transaction) == Append(list, transaction)

\* addTransaction: unshift, then slice(0, maxTrackedTransactions) when longer
AddTransaction(list, transaction) ==
    LET unshifted == <<transaction>> \o list
    IN IF Len(unshifted) > maxTrackedTransactions
       THEN SubSeq(unshifted, 1, maxTrackedTransactions)
       ELSE unshifted

\* addTransaction as a step: the list, and with Math.random() < 0.1 a timer of
\* generateNewMockTransaction
Insert(transaction, arm, timers) ==
    /\ Len(inserted) < MaxInsertions
    /\ arm => timers < MaxMockTimers
    /\ recentTransactions' = AddTransaction(recentTransactions, transaction)
    /\ inserted' = <<transaction.hash>> \o inserted
    /\ mockTimers' = IF arm THEN timers + 1 ELSE timers

Drop(j) == [i \in LookupIds \ {j} |-> lookups[i]]

\* the 'pending' listener: a task with the hash goes to the rate limited
\* processor. The node announces a hash once.
PendingNotification(j, hash) ==
    /\ j \in 1..MaxLookups
    /\ j \notin LookupIds
    /\ hash \notin announced
    /\ announced' = announced \cup {hash}
    /\ UNCHANGED mined
    /\ lookups' = [i \in LookupIds \cup {j} |->
                     IF i = j THEN [path |-> "pending", hash |-> hash, stage |-> "getTransaction"]
                     ELSE lookups[i]]
    /\ UNCHANGED <<recentTransactions, inserted, mockTimers>>
    /\ HistoryOnly

\* processBlock: a task with a hash of the block goes to the rate limited
\* processor. A hash is in one block.
BlockTransaction(j, hash) ==
    /\ j \in 1..MaxLookups
    /\ j \notin LookupIds
    /\ hash \notin mined
    /\ mined' = mined \cup {hash}
    /\ UNCHANGED announced
    /\ lookups' = [i \in LookupIds \cup {j} |->
                     IF i = j THEN [path |-> "block", hash |-> hash, stage |-> "getTransaction"]
                     ELSE lookups[i]]
    /\ UNCHANGED <<recentTransactions, inserted, mockTimers>>
    /\ HistoryOnly

\* provider.getTransaction answers a task; a whale transaction goes to
\* processWhaleTransaction, which adds it at once when it has no call data and
\* awaits tokenService.analyzeTransaction first when it has
GetTransactionAnswers(j, r, arm) ==
    /\ j \in LookupIds
    /\ lookups[j].stage = "getTransaction"
    /\ (lookups[j].path = "block" /\ r.kind # "none") => r.blockNumber = BlockNumber
    /\ UNCHANGED <<announced, mined>>
    /\ CASE r.kind = "none" ->
              /\ lookups' = Drop(j)
              /\ ~arm
              /\ UNCHANGED <<recentTransactions, inserted, mockTimers>>
         [] r.kind = "plain" ->
              /\ lookups' = Drop(j)
              /\ Insert(WhaleTransaction(lookups[j].hash, r.blockNumber), arm, mockTimers)
         [] r.kind = "contract" ->
              /\ lookups' = [lookups EXCEPT ![j] =
                                [path |-> @.path, hash |-> @.hash,
                                 stage |-> "analyzeTransaction", blockNumber |-> r.blockNumber]]
              /\ ~arm
              /\ UNCHANGED <<recentTransactions, inserted, mockTimers>>
    /\ HistoryOnly

\* tokenService.analyzeTransaction answers: the record is added; when it
\* throws, the catch clause of processWhaleTransaction logs and nothing is added
AnalyzeTransactionAnswers(j, ok, arm) ==
    /\ j \in LookupIds
    /\ lookups[j].stage = "analyzeTransaction"
    /\ lookups' = Drop(j)
    /\ UNCHANGED <<announced, mined>>
    /\ IF ok
       THEN Insert(WhaleTransaction(lookups[j].hash, lookups[j].blockNumber), arm, mockTimers)
       ELSE /\ ~arm
            /\ UNCHANGED <<recentTransactions, inserted, mockTimers>>
    /\ HistoryOnly

\* the timer of addTransaction fires: generateNewMockTransaction adds a
\* transaction with a random hash
GenerateNewMockTransaction(arm) ==
    /\ mockTimers > 0
    /\ Insert([hash |-> 200 + Len(inserted), status |-> "confirmed",
               blockNumber |-> 18500000], arm, mockTimers - 1)
    /\ UNCHANGED <<lookups, announced, mined>>
    /\ HistoryOnly

NextHistory ==
    \/ \E j \in 1..MaxLookups, hash \in Hashes : PendingNotification(j, hash)
    \/ \E j \in 1..MaxLookups, hash \in Hashes : BlockTransaction(j, hash)
    \/ \E j \in LookupIds, r \in TransactionResults, a \in BOOLEAN : GetTransactionAnswers(j, r, a)
    \/ \E j \in LookupIds, ok \in BOOLEAN, a \in BOOLEAN : AnalyzeTransactionAnswers(j, ok, a)
    \/ \E arm \in BOOLEAN : GenerateNewMockTransaction(arm)

SpecHistory == Init /\ [][NextHistory]_vars

\* the hashes of a list of records, in its order
HashesOf(list) == [i \in DOMAIN list |-> list[i].hash]

\* C12: after an insertion the history is never longer than its capacity; once
\* more transactions than the capacity were inserted it has exactly the
\* capacity's length and holds the latest insertions, newest first.
C12_BoundedHistory ==
    /\ Len(inserted) > 0 => Len(recentTransactions) <= maxTrackedTransactions
    /\ Len(inserted) > maxTrackedTransactions =>
          HashesOf(recentTransactions) = SubSeq(inserted, 1, maxTrackedTransactions)

\* more transactions than the capacity were inserted
C12_Witness ==
    /\ Len(inserted) > maxTrackedTransactions
    /\ Len(recentTransactions) = maxTrackedTransactions

\* C14: the history never holds two records with one hash.
C14_OneRecordPerHash ==
    \A i, k \in DOMAIN recentTransactions :
        recentTransactions[i].hash = recentTransactions[k].hash => i = k

\* ------------------------------------------------------------------------
\* Whale classification: isWhaleTransaction of the services, the transfer
\* test of SolanaService.processBlock
\* ------------------------------------------------------------------------
\* the classifiers: WhaleService (with the rate limited processor), its
\* earlier revision, BnbService, SolanaService
Engines == {"ethereum", "ethereumFirst", "bnb", "solana"}

\* the threshold of each engine: the defaults of MIN_TRANSACTION_VALUE_ETH and
\* MIN_TRANSACTION_VALUE_BNB, and WHALE_THRESHOLD_SOL
MinTransactionValue(engine) ==
    CASE engine = "ethereum" -> 5
      [] engine = "ethereumFirst" -> 50
      [] engine = "bnb" -> 50
      [] engine = "solana" -> WHALE_THRESHOLD_SOL

\* tx.value as the node gives it: missing, or an amount of native units
Transactions ==
    {[hasValue |-> FALSE, value |-> 0]}
    \cup {[hasValue |-> TRUE, value |-> v] : v \in 0..(MaxCoins * UnitsPerCoin)}

\* ethers.formatEther and parseFloat, lamports / LAMPORTS_PER_SOL: the amount
\* in coins, as whole coins and the rest
FormatEther(value) == [whole |-> value \div UnitsPerCoin, rest |-> value % UnitsPerCoin]

\* floatValue >= n and floatValue <= n, for a whole number n
AtLeast(floatValue, n) == floatValue.whole >= n
AtMost(floatValue, n) == floatValue.whole < n \/ (floatValue.whole = n /\ floatValue.rest = 0)

\* isWhaleTransaction of each engine. A missing value and a value of zero are
\* falsy. SolanaService reads lamports of a parsed transfer, which is a number.
IsWhaleTransaction(engine, tx) ==
    LET floatValue == FormatEther(tx.value)
    IN CASE engine = "ethereum" ->
              IF ~tx.hasValue \/ tx.value = 0 THEN FALSE
              ELSE AtLeast(floatValue, MinTransactionValue(engine)) /\ AtMost(floatValue, 100)
         [] engine \in {"ethereumFirst", "bnb"} ->
              IF ~tx.hasValue \/ tx.value = 0 THEN FALSE
              ELSE AtLeast(floatValue, MinTransactionValue(engine))
         [] engine = "solana" ->
              tx.hasValue /\ AtLeast(floatValue, MinTransactionValue(engine))

\* a transaction reaches the classifier of an engine
Classify(engine, tx) ==
    /\ classified' = [engine |-> engine, hasValue |-> tx.hasValue, value |-> tx.value,
                      result |-> IsWhaleTransaction(engine, tx)]
    /\ scored' = [done |-> FALSE]
    /\ risk' = [done |-> FALSE]
    /\ alerted' = [done |-> FALSE]
    /\ PureOnly

NextClassify == \E engine \in Engines, tx \in Transactions : Classify(engine, tx)

SpecClassify == Init /\ [][NextClassify]_vars

\* C13: for every engine a transaction is classified as a whale's exactly when
\* it has a value and the value in coins is at least the engine's threshold.
C13_ClassifyIffAtLeastThreshold ==
    classified.engine \in Engines =>
        (classified.result <=>
            (classified.hasValue
             /\ classified.value >= MinTransactionValue(classified.engine) * UnitsPerCoin))

\* ------------------------------------------------------------------------
\* SolanaService: startWhaleMonitoring, stopWhaleMonitoring, the slot poll
\* ------------------------------------------------------------------------
SlotTickIds == DOMAIN slotTicks

EndTick(t) == [i \in SlotTickIds \ {t} |-> slotTicks[i]]

\* startWhaleMonitoring up to its await of connection.getSlot
StartWhaleMonitoring ==
    /\ whaleMonitoringInterval = 0
    /\ starting + timersCreated < MaxPollTimers
    /\ starting' = starting + 1
    /\ UNCHANGED <<whaleMonitoringInterval, lastProcessedSlot, pollTimers, timersCreated,
                   slotTicks, chainSlot, processedSlots>>
    /\ PollerOnly

\* startWhaleMonitoring on an active monitoring: a warning
StartWhaleMonitoringActive ==
    /\ whaleMonitoringInterval # 0
    /\ UNCHANGED varsPoller
    /\ PollerOnly

\* getSlot answers startWhaleMonitoring: the slot is the starting point and
\* the interval timer is created. When it throws the call is rejected.
StartFetched(ok) ==
    /\ starting > 0
    /\ starting' = starting - 1
    /\ IF ok
       THEN /\ lastProcessedSlot' = chainSlot
            /\ timersCreated' = timersCreated + 1
            /\ pollTimers' = pollTimers \cup {timersCreated + 1}
            /\ whaleMonitoringInterval' = timersCreated + 1
       ELSE UNCHANGED <<lastProcessedSlot, timersCreated, pollTimers, whaleMonitoringInterval>>
    /\ UNCHANGED <<slotTicks, chainSlot, processedSlots>>
    /\ PollerOnly

\* stopWhaleMonitoring
StopWhaleMonitoring ==
    /\ IF whaleMonitoringInterval # 0
       THEN /\ pollTimers' = pollTimers \ {whaleMonitoringInterval}
            /\ whaleMonitoringInterval' = 0
       ELSE UNCHANGED <<pollTimers, whaleMonitoringInterval>>
    /\ UNCHANGED <<lastProcessedSlot, timersCreated, starting, slotTicks, chainSlot, processedSlots>>
    /\ PollerOnly

\* the chain produces a slot
SlotAdvance ==
    /\ chainSlot < MaxSlot
    /\ chainSlot' = chainSlot + 1
    /\ UNCHANGED <<whaleMonitoringInterval, lastProcessedSlot, pollTimers, timersCreated, starting,
                   slotTicks, processedSlots>>
    /\ PollerOnly

\* an interval timer fires: the callback runs to its await of getSlot
SlotPollTick(t) ==
    /\ pollTimers # {}
    /\ t \in PollTicks
    /\ t \notin SlotTickIds
    /\ slotTicks' = [i \in SlotTickIds \cup {t} |->
                       IF i = t THEN [stage |-> "getSlot", slotToProcess |-> 0, currentSlot |-> 0]
                       ELSE slotTicks[i]]
    /\ UNCHANGED <<whaleMonitoringInterval, lastProcessedSlot, pollTimers, timersCreated, starting,
                   chainSlot, processedSlots>>
    /\ PollerOnly

\* getSlot answers a tick: with a slot beyond lastProcessedSlot the loop
\* starts at lastProcessedSlot + 1 and awaits getParsedBlock; an exception
\* goes to the catch clause
SlotFetched(t, ok) ==
    /\ t \in SlotTickIds
    /\ slotTicks[t].stage = "getSlot"
    /\ IF ok /\ chainSlot > lastProcessedSlot
       THEN slotTicks' = [slotTicks EXCEPT ![t] =
                             [stage |-> "getParsedBlock",
                              slotToProcess |-> lastProcessedSlot + 1,
                              currentSlot |-> chainSlot]]
       ELSE slotTicks' = EndTick(t)
    /\ UNCHANGED <<whaleMonitoringInterval, lastProcessedSlot, pollTimers, timersCreated, starting,
                   chainSlot, processedSlots>>
    /\ PollerOnly

\* getParsedBlock answers a tick: a block goes to processBlock, null is
\* logged, and the loop goes on to the next slot or, after the last one, sets
\* lastProcessedSlot. An exception ends the tick in the catch clause.
BlockFetched(t, r) ==
    /\ t \in SlotTickIds
    /\ slotTicks[t].stage = "getParsedBlock"
    /\ IF r = "error"
       THEN /\ slotTicks' = EndTick(t)
            /\ UNCHANGED <<lastProcessedSlot, processedSlots>>
       ELSE /\ IF r = "block"
               THEN /\ Len(processedSlots) < MaxProcessed
                    /\ processedSlots' = Append(processedSlots, slotTicks[t].slotToProcess)
               ELSE UNCHANGED processedSlots
            /\ IF slotTicks[t].slotToProcess + 1 <= slotTicks[t].currentSlot
               THEN /\ slotTicks' = [slotTicks EXCEPT ![t].slotToProcess = @ + 1]
                    /\ UNCHANGED lastProcessedSlot
               ELSE /\ slotTicks' = EndTick(t)
                    /\ lastProcessedSlot' = slotTicks[t].currentSlot
    /\ UNCHANGED <<whaleMonitoringInterval, pollTimers, timersCreated, starting, chainSlot>>
    /\ PollerOnly

NextPoller ==
    \/ StartWhaleMonitoring
    \/ StartWhaleMonitoringActive
    \/ \E ok \in BOOLEAN : StartFetched(ok)
    \/ StopWhaleMonitoring
    \/ SlotAdvance
    \/ \E t \in PollTicks : SlotPollTick(t)
    \/ \E t \in SlotTickIds, ok \in BOOLEAN : SlotFetched(t, ok)
    \/ \E t \in SlotTickIds, r \in {"block", "null", "error"} : BlockFetched(t, r)

SpecPoller == Init /\ [][NextPoller]_vars

\* C15: of two processed slots the lower one is handed to processBlock first.
C15_SlotsInIncreasingOrder ==
    \A i, k \in DOMAIN processedSlots :
        i < k => processedSlots[i] <= processedSlots[k]

\* ------------------------------------------------------------------------
\* SolanaService: calculateInvestmentScore, determineRiskLevel, the alert level
\* of generateWhaleAlert. Scores are in hundredths of a point, amounts in
\* dollars, ages in hours.
\* ------------------------------------------------------------------------
Max(a, b) == IF a >= b THEN a ELSE b

Abs(a) == IF a >= 0 THEN a ELSE 0 - a

\* the pairs given to calculateInvestmentScore: liquidity.usd, volume.h24,
\* priceChange.h24 (percent), age; with the slippage score of the bonding
\* curve and the social score (points)
ScoredPairs ==
    [liquidity : {0, 600000, 10000000},
     volume : {0, 80000, 5000000},
     priceChange : {-50, 2},
     slippageScore : {0, 90},
     socialScore : {0, 70},
     ageHours : {0, 240}]

\* the calls of determineRiskLevel: the score, liquidity.usd, the age
RiskInputs ==
    [investmentScore : {0, 3999, 4000, 5999, 6000, 7999, 8000, 10000},
     liquidity : {0, 9999, 10000, 99999, 100000, 499999, 500000, 600000},
     ageHours : {0, 71, 72, 167, 168, 240}]

\* Math.min(100, liquidity / 100000)
LiquidityScore(liquidity) == Min(10000, (liquidity * 100) \div 100000)

\* Math.min(100, volume / 50000)
VolumeScore(volume) == Min(10000, (volume * 100) \div 50000)

\* Math.max(0, 100 - Math.abs(priceChange) * 2)
StabilityScore(priceChange) == Max(0, 10000 - Abs(priceChange) * 200)

\* calculateInvestmentScore: the weighted sum, within 0..100
CalculateInvestmentScore(pair) ==
    Max(0, Min(10000,
        (LiquidityScore(pair.liquidity) * 30
         + VolumeScore(pair.volume) * 25
         + StabilityScore(pair.priceChange) * 20
         + pair.slippageScore * 100 * 15
         + pair.socialScore * 100 * 10) \div 100))

\* determineRiskLevel with its tests in the opposite order
DetermineRiskLevelLastMatch(investmentScore, liquidity, ageHours) ==
    IF ~(investmentScore >= 4000 /\ liquidity >= 10000) THEN "EXTREME"
    ELSE IF ~(investmentScore >= 6000 /\ liquidity >= 100000) THEN "HIGH"
    ELSE IF ~(investmentScore >= 8000 /\ liquidity >= 500000) THEN "MEDIUM"
    ELSE "LOW"

\* determineRiskLevel: the first test that holds
DetermineRiskLevel(investmentScore, liquidity, ageHours) ==
    IF investmentScore >= 8000 /\ liquidity >= 500000 /\ ageHours >= 7 * 24 THEN "LOW"
    ELSE IF investmentScore >= 6000 /\ liquidity >= 100000 /\ ageHours >= 3 * 24 THEN "MEDIUM"
    ELSE IF investmentScore >= 4000 /\ liquidity >= 10000 THEN "HIGH"
    ELSE "EXTREME"

\* performTokenAnalysis: the score of a pair, then its risk level
Score(pair) ==
    /\ scored' = [done |-> TRUE, pair |-> pair,
                  liquidityScore |-> LiquidityScore(pair.liquidity),
                  volumeScore |-> VolumeScore(pair.volume),
                  investmentScore |-> CalculateInvestmentScore(pair),
                  riskLevel |-> DetermineRiskLevel(CalculateInvestmentScore(pair),
                                                   pair.liquidity, pair.ageHours)]
    /\ risk' = [done |-> FALSE]
    /\ alerted' = [done |-> FALSE]
    /\ UNCHANGED classified
    /\ PureOnly

\* determineRiskLevel is called
DetermineRisk(in) ==
    /\ risk' = [done |-> TRUE, in |-> in,
                riskLevel |-> DetermineRiskLevel(in.investmentScore, in.liquidity, in.ageHours)]
    /\ scored' = [done |-> FALSE]
    /\ alerted' = [done |-> FALSE]
    /\ UNCHANGED classified
    /\ PureOnly

\* the scores an analysis can carry
InvestmentScores == {0, 3999, 4000, 5999, 6000, 7999, 8000, 10000}

\* the level of generateWhaleAlert following the risk level: the best score
\* gets the lowest level
AlertLevelAsRisk(investmentScore) ==
    IF investmentScore >= 8000 THEN "LOW"
    ELSE IF investmentScore >= 6000 THEN "MEDIUM"
    ELSE IF investmentScore >= 4000 THEN "HIGH"
    ELSE "CRITICAL"

\* generateWhaleAlert: alertLevel
AlertLevel(investmentScore) ==
    IF investmentScore >= 8000 THEN "HIGH"
    ELSE IF investmentScore >= 6000 THEN "MEDIUM"
    ELSE IF investmentScore >= 4000 THEN "LOW"
    ELSE "CRITICAL"

\* generateWhaleAlert builds the alert of an analysis
GenerateAlertLevel(investmentScore) ==
    /\ alerted' = [done |-> TRUE, investmentScore |-> investmentScore,
                   alertLevel |-> AlertLevel(investmentScore)]
    /\ scored' = [done |-> FALSE]
    /\ risk' = [done |-> FALSE]
    /\ UNCHANGED classified
    /\ PureOnly

NextScorer ==
    \/ \E pair \in ScoredPairs : Score(pair)
    \/ \E in \in RiskInputs : DetermineRisk(in)
    \/ \E investmentScore \in InvestmentScores : GenerateAlertLevel(investmentScore)

SpecScorer == Init /\ [][NextScorer]_vars

\* the levels from worst to best
Rank(level) ==
    CASE level = "EXTREME" -> 0 [] level = "HIGH" -> 1 [] level = "MEDIUM" -> 2 [] level = "LOW" -> 3

\* C18: the risk level is the first match of LOW (score >= 80, liquidity >=
\* $500k, age >= 7 days), MEDIUM (>= 60, >= $100k, >= 3 days), HIGH (>= 40,
\* >= $10k), else EXTREME; no input that is at least as good in score,
\* liquidity and age gets a worse level.
C18_RiskLevelFirstMatch ==
    risk.done =>
        LET s == risk.in.investmentScore
            l == risk.in.liquidity
            a == risk.in.ageHours
            low == s >= 8000 /\ l >= 500000 /\ a >= 168
            medium == s >= 6000 /\ l >= 100000 /\ a >= 72
            high == s >= 4000 /\ l >= 10000
        IN /\ risk.riskLevel = "LOW" <=> low
           /\ risk.riskLevel = "MEDIUM" <=> (~low /\ medium)
           /\ risk.riskLevel = "HIGH" <=> (~low /\ ~medium /\ high)
           /\ risk.riskLevel = "EXTREME" <=> (~low /\ ~medium /\ ~high)
           /\ \A better \in RiskInputs :
                 (better.investmentScore >= s /\ better.liquidity >= l /\ better.ageHours >= a)
                    => Rank(DetermineRiskLevel(better.investmentScore, better.liquidity,
                                               better.ageHours)) >= Rank(risk.riskLevel)

\* a triple that meets the criteria of LOW was classified
C18_Witness ==
    /\ risk.done
    /\ risk.in.investmentScore >= 8000 /\ risk.in.liquidity >= 500000 /\ risk.in.ageHours >= 168
    /\ risk.riskLevel = "LOW"

\* C19: the pair with liquidity $600,000, volume $80,000, price change 2%,
\* slippage score 90, social score 70 and age 10 days gets 100 points for
\* liquidity and for volume, a score of at least 80 and the level LOW.
C19_ExampleScoresLow ==
    (/\ scored.done
     /\ scored.pair = [liquidity |-> 600000, volume |-> 80000, priceChange |-> 2,
                       slippageScore |-> 90, socialScore |-> 70, ageHours |-> 240])
       => /\ scored.liquidityScore = 10000
          /\ scored.volumeScore = 10000
          /\ scored.investmentScore >= 8000
          /\ scored.riskLevel = "LOW"

\* C20: the level of an alert follows from the score of its analysis: HIGH
\* from 80, MEDIUM from 60 to below 80, LOW from 40 to below 60, CRITICAL below 40.
C20_AlertLevelFromScore ==
    alerted.done =>
        LET s == alerted.investmentScore
        IN /\ alerted.alertLevel = "HIGH" <=> s >= 8000
           /\ alerted.alertLevel = "MEDIUM" <=> (6000 <= s /\ s < 8000)
           /\ alerted.alertLevel = "LOW" <=> (4000 <= s /\ s < 6000)
           /\ alerted.alertLevel = "CRITICAL" <=> s < 4000

\* an alert of a score just below 80 was built
C20_Witness ==
    /\ alerted.done
    /\ alerted.investmentScore = 7999
    /\ alerted.alertLevel = "MEDIUM"

\* ------------------------------------------------------------------------
\* SolanaService: analyzeToken, generateWhaleAlert
\* ------------------------------------------------------------------------
AnalysisIds == DOMAIN analyses

\* what getTokenDataFromDexscreener and performTokenAnalysis make of the
\* request: the request fails (null), the answer has no pairs, the first pair
\* lacks a field performTokenAnalysis reads (it throws), or it is a pair
DexscreenerResults == {"fail", "noPairs", "malformed", "pairs"}

\* the test of the cache with no look at the age
CacheHitAnyAge(entry, time) == entry # NoMonitor

\* analyzeToken: cached && Date.now() - cached._cachedAt < TOKEN_ANALYSIS_CACHE_DURATION
CacheHit(entry, time) ==
    /\ entry # NoMonitor
    /\ time - entry.cachedAt < TOKEN_ANALYSIS_CACHE_DURATION

\* the test of the answer that lets everything through
HasPairsUntested(r) == TRUE

\* analyzeToken: the negation of !tokenData || !tokenData.pairs || pairs.length === 0
HasPairs(r) == r \notin {"fail", "noPairs"}

EndAnalysis(c) == [i \in AnalysisIds \ {c} |-> analyses[i]]

\* analyzeToken is called: a hit of the cache is returned, otherwise the
\* request to Dexscreener goes out
AnalyzeToken(token, whale) ==
    /\ analysesStarted < MaxAnalyses
    /\ analysesStarted' = analysesStarted + 1
    /\ IF CacheHit(tokenAnalysisCache[token], analyzerNow)
       THEN /\ returned' = [call |-> analysesStarted + 1, kind |-> "analysis", source |-> "cache",
                            cachedAt |-> tokenAnalysisCache[token].cachedAt]
            /\ tokenAnalysisEvents' = tokenAnalysisEvents \cup {<<whale, token>>}
            /\ UNCHANGED <<analyses, marketRequests>>
       ELSE /\ analyses' = [i \in AnalysisIds \cup {analysesStarted + 1} |->
                              IF i = analysesStarted + 1
                              THEN [token |-> token, whale |-> whale, stage |-> "dexscreener",
                                    cachedAt |-> 0, investmentScore |-> 0]
                              ELSE analyses[i]]
            /\ marketRequests' = marketRequests + 1
            /\ UNCHANGED <<returned, tokenAnalysisEvents>>
    /\ UNCHANGED <<tokenAnalysisCache, activeAlerts, analyzerNow, alertEvents, durableAlerts,
                   markReturned>>
    /\ AnalyzerOnly

\* Dexscreener answers: without pairs analyzeToken returns null; with a pair
\* performTokenAnalysis runs to its await of getTokenHolders, and an exception
\* in it makes analyzeToken return null from its catch clause
DexscreenerAnswers(c, r, investmentScore) ==
    /\ c \in AnalysisIds
    /\ analyses[c].stage = "dexscreener"
    /\ IF HasPairs(r) /\ r # "malformed"
       THEN /\ analyses' = [analyses EXCEPT ![c].stage = "holders",
                                            ![c].investmentScore = investmentScore]
            /\ UNCHANGED returned
       ELSE /\ analyses' = EndAnalysis(c)
            /\ returned' = [call |-> c, kind |-> "null", source |-> r, cachedAt |-> 0]
    /\ UNCHANGED <<tokenAnalysisCache, activeAlerts, analysesStarted, analyzerNow, marketRequests,
                   alertEvents, durableAlerts, tokenAnalysisEvents, markReturned>>
    /\ AnalyzerOnly

\* the id generateWhaleAlert gives the alert of a call: whale, token, Date.now()
AlertId(c, time) == <<analyses[c].whale, analyses[c].token, time>>

\* getTokenHolders answers: the analysis is cached and generateWhaleAlert
\* stores the alert, publishes it and awaits alertModel.create
HoldersAnswer(c) ==
    /\ c \in AnalysisIds
    /\ analyses[c].stage = "holders"
    /\ tokenAnalysisCache' = [tokenAnalysisCache EXCEPT ![analyses[c].token] =
                                 [cachedAt |-> analyzerNow,
                                  investmentScore |-> analyses[c].investmentScore]]
    /\ activeAlerts' =
          {a \in activeAlerts : a.id # AlertId(c, analyzerNow)}
          \cup {[id |-> AlertId(c, analyzerNow),
                 investmentScore |-> analyses[c].investmentScore,
                 alertLevel |-> AlertLevel(analyses[c].investmentScore),
                 read |-> FALSE]}
    /\ alertEvents' = alertEvents + 1
    /\ analyses' = [analyses EXCEPT ![c].stage = "persist", ![c].cachedAt = analyzerNow]
    /\ UNCHANGED <<analysesStarted, analyzerNow, marketRequests, returned, durableAlerts,
                   tokenAnalysisEvents, markReturned>>
    /\ AnalyzerOnly

\* generateWhaleAlert with no catch around alertModel.create: the exception
\* goes to the catch clause of analyzeToken, which returns null
PersistOutcomeUncaught(ok) == IF ok THEN "analysis" ELSE "null"

\* generateWhaleAlert: try { await alertModel.create } catch {}
PersistOutcome(ok) == "analysis"

\* alertModel.create answers or throws: generateWhaleAlert returns either way
\* and analyzeToken returns the analysis; checkAndLogTokenDetails publishes
\* token_analysis for an analysis
PersistAnswers(c, ok) ==
    /\ c \in AnalysisIds
    /\ analyses[c].stage = "persist"
    /\ analyses' = EndAnalysis(c)
    /\ returned' = [call |-> c, kind |-> PersistOutcome(ok), source |-> "pairs",
                    cachedAt |-> analyses[c].cachedAt]
    /\ durableAlerts' = IF ok THEN durableAlerts \cup {AlertId(c, analyses[c].cachedAt)}
                        ELSE durableAlerts
    /\ tokenAnalysisEvents' =
          IF PersistOutcome(ok) = "analysis"
          THEN tokenAnalysisEvents \cup {<<analyses[c].whale, analyses[c].token>>}
          ELSE tokenAnalysisEvents
    /\ UNCHANGED <<tokenAnalysisCache, activeAlerts, analysesStarted, analyzerNow, marketRequests,
                   alertEvents, markReturned>>
    /\ AnalyzerOnly

\* the ids markAlertAsRead can be called with
AlertIds == Whales \X Tokens \X (0..MaxClock)

\* markAlertAsRead that marks every alert
MarkAllAsRead(alerts, alertId) == {[a EXCEPT !.read = TRUE] : a \in alerts}

\* markAlertAsRead: the alert of the id gets read = true
MarkAsRead(alerts, alertId) ==
    {IF a.id = alertId THEN [a EXCEPT !.read = TRUE] ELSE a : a \in alerts}

\* markAlertAsRead
MarkAlertAsRead(alertId) ==
    /\ activeAlerts' = MarkAsRead(activeAlerts, alertId)
    /\ markReturned' = IF \E a \in activeAlerts : a.id = alertId THEN "true" ELSE "false"
    /\ UNCHANGED <<tokenAnalysisCache, analyses, analysesStarted, analyzerNow, marketRequests,
                   alertEvents, returned, durableAlerts, tokenAnalysisEvents>>
    /\ AnalyzerOnly

\* getActiveAlerts: the alerts by timestamp, newest first, cut after
\* MaxAlertsReturned
GetActiveAlerts ==
    {a \in activeAlerts :
        Cardinality({b \in activeAlerts : b.id[3] > a.id[3]}) < MaxAlertsReturned}

\* time passes
AnalyzerTick ==
    /\ analyzerNow < MaxClock
    /\ analyzerNow' = analyzerNow + 1
    /\ UNCHANGED <<tokenAnalysisCache, activeAlerts, analyses, analysesStarted, marketRequests,
                   alertEvents, returned, durableAlerts, tokenAnalysisEvents, markReturned>>
    /\ AnalyzerOnly

\* the investment scores performTokenAnalysis computes in the runs explored
InvestmentScoresSeen == {8000}

NextAnalyzer ==
    \/ \E token \in Tokens, whale \in Whales : AnalyzeToken(token, whale)
    \/ \E c \in AnalysisIds, r \in DexscreenerResults, sc \in InvestmentScoresSeen : DexscreenerAnswers(c, r, sc)
    \/ \E c \in AnalysisIds : HoldersAnswer(c)
    \/ \E c \in AnalysisIds, ok \in BOOLEAN : PersistAnswers(c, ok)
    \/ \E alertId \in AlertIds : MarkAlertAsRead(alertId)
    \/ AnalyzerTick

SpecAnalyzer == Init /\ [][NextAnalyzer]_vars

\* C16: a call of analyzeToken that finds a cached analysis younger than the
\* TTL returns it and sends no request; a call that finds none, or one as old
\* as the TTL or older, sends a request, and no analysis of that age is ever
\* returned from the cache.
C16_CacheHitWithoutRequest ==
    /\ [][\A token \in Tokens, whale \in Whales :
            (AnalyzeToken(token, whale) /\ tokenAnalysisCache[token] # NoMonitor)
               => IF analyzerNow - tokenAnalysisCache[token].cachedAt < TOKEN_ANALYSIS_CACHE_DURATION
                  THEN /\ marketRequests' = marketRequests
                       /\ returned'.call = analysesStarted'
                       /\ returned'.kind = "analysis"
                       /\ returned'.cachedAt = tokenAnalysisCache[token].cachedAt
                  ELSE /\ marketRequests' = marketRequests + 1
                       /\ returned' = returned]_vars
    /\ [][(returned' # returned /\ returned'.source = "cache")
             => analyzerNow - returned'.cachedAt < TOKEN_ANALYSIS_CACHE_DURATION]_vars

\* a second call was answered from the cache: one request for two calls
C16_Witness ==
    /\ returned.source = "cache"
    /\ analysesStarted = 2
    /\ marketRequests = 1

\* C17: when the request fails or the answer has no pairs, analyzeToken
\* returns null, the cache and the alerts stay as they are and no alert event
\* is published.
C17_NoPairsNoAnalysis ==
    [][\A c \in AnalysisIds, r \in {"fail", "noPairs"}, sc \in {3999, 8000} :
          DexscreenerAnswers(c, r, sc)
             => /\ returned' = [call |-> c, kind |-> "null", source |-> r, cachedAt |-> 0]
                /\ c \notin DOMAIN analyses'
                /\ UNCHANGED <<tokenAnalysisCache, activeAlerts, alertEvents>>]_vars

\* a call has returned null for a token without pairs
C17_Witness ==
    /\ returned.kind = "null"
    /\ returned.source = "noPairs"
    /\ returned.call \notin AnalysisIds
    /\ activeAlerts = {}

\* C21: when storing the alert fails, analyzeToken still returns the
\* analysis, the alert is in activeAlerts, the whale_alert event of the call
\* was published once (by the step that stored the alert, and by no other
\* step), and the call ends.
C21_PersistFailureIsHarmless ==
    /\ [][\A c \in AnalysisIds :
            PersistAnswers(c, FALSE)
               => /\ returned'.call = c
                  /\ returned'.kind = "analysis"
                  /\ \E a \in activeAlerts' : a.id = AlertId(c, analyses[c].cachedAt)
                  /\ alertEvents' = alertEvents
                  /\ c \notin DOMAIN analyses']_vars
    /\ [][alertEvents' # alertEvents
            => /\ alertEvents' = alertEvents + 1
               /\ \E c \in AnalysisIds :
                     /\ analyses[c].stage = "holders"
                     /\ analyses'[c].stage = "persist"]_vars

\* an analysis was returned whose alert is in memory and not in the store
C21_Witness ==
    /\ returned.kind = "analysis"
    /\ returned.source = "pairs"
    /\ durableAlerts = {}
    /\ activeAlerts # {}
    /\ alertEvents = 1
    /\ analyses = <<>>

\* C22: activeAlerts never holds more alerts than getActiveAlerts returns.
C22_AlertsBounded == Cardinality(activeAlerts) <= MaxAlertsReturned

\* C23: when a token_analysis event was published for a whale and a token,
\* there is an alert of that whale and that token.
C23_AnalysisEventHasAlert ==
    \A e \in tokenAnalysisEvents :
        \E a \in activeAlerts : a.id[1] = e[1] /\ a.id[2] = e[2]

\* C24: markAlertAsRead sets the read flag of the alert with the id and
\* returns true, and leaves the other alerts and every other field alone; for
\* an unknown id it returns false and changes nothing; on an alert that is
\* read it changes nothing.
C24_MarkAlertAsReadFrame ==
    [][\A alertId \in AlertIds :
          MarkAlertAsRead(alertId)
             => /\ UNCHANGED <<tokenAnalysisCache, analyses, analysesStarted, analyzerNow,
                               marketRequests, alertEvents, returned, durableAlerts,
                               tokenAnalysisEvents>>
                /\ {a.id : a \in activeAlerts'} = {a.id : a \in activeAlerts}
                /\ \A a \in activeAlerts :
                      IF a.id = alertId
                      THEN [a EXCEPT !.read = TRUE] \in activeAlerts'
                      ELSE a \in activeAlerts'
                /\ Cardinality(activeAlerts') = Cardinality(activeAlerts)
                /\ markReturned' = IF alertId \in {a.id : a \in activeAlerts}
                                   THEN "true" ELSE "false"
                /\ (\A a \in activeAlerts : a.id = alertId => a.read)
                      => activeAlerts' = activeAlerts]_vars

\* one of two alerts was marked as read, the other one is unread
C24_Witness ==
    /\ markReturned = "true"
    /\ \E a, b \in activeAlerts : a.read /\ ~b.read

\* ------------------------------------------------------------------------
\* WhaleMagnetService: the new-launch tracker and the whale-magnet sweep
\* ------------------------------------------------------------------------
LaunchCallIds == DOMAIN launchCalls

EndLaunchCall(c) == [i \in LaunchCallIds \ {c} |-> launchCalls[i]]

\* the pairs fetchTokenPairs returns, each by whether it passes the filters
\* of analyzeToken and shouldAlert
PairLists == UNION {[1..n -> BOOLEAN] : n \in 0..MaxPairs}

\* the Launch records of a key
RecordsOf(key) == {i \in DOMAIN launches : launches[i].key = key}

\* launchModel.create: a new document, whatever the collection holds
LaunchCreate(store, key, c) == Append(store, [key |-> key, by |-> "new_launch", call |-> c])

\* launchModel.updateOne with $setOnInsert and upsert: a new document only
\* when none matches chainId and tokenAddress
LaunchUpsert(store, key, c) ==
    IF \E i \in DOMAIN store : store[i].key = key
    THEN store
    ELSE Append(store, [key |-> key, by |-> "whale_magnet", call |-> c])

\* analyzeNewLaunch up to its await of launchModel.create: the guard on
\* analyzedTokens, the quote-symbol filter, createWhaleMagnetEvent and
\* shouldAlertNewLaunch; only a qualifying token enters analyzedTokens
AnalyzeNewLaunch(key, isTargetPair, qualifies) ==
    /\ launchStarted < MaxLaunchCalls
    /\ launchStarted' = launchStarted + 1
    /\ IF key \in analyzedTokens \/ ~isTargetPair
       THEN UNCHANGED <<analyzedTokens, trackedTokens, launchCalls, analysesOf, magnetEvents>>
       ELSE /\ analysesOf' = [analysesOf EXCEPT ![key] = @ + 1]
            /\ IF qualifies
               THEN /\ trackedTokens' = trackedTokens \cup {key}
                    /\ analyzedTokens' = analyzedTokens \cup {key}
                    /\ magnetEvents' = [magnetEvents EXCEPT ![key].new_launch = @ + 1]
                    /\ launchCalls' = [i \in LaunchCallIds \cup {launchStarted + 1} |->
                                         IF i = launchStarted + 1
                                         THEN [key |-> key, stage |-> "create", pairs |-> <<>>]
                                         ELSE launchCalls[i]]
               ELSE UNCHANGED <<analyzedTokens, trackedTokens, launchCalls, magnetEvents>>
    /\ UNCHANGED <<launches, cleared>>
    /\ LaunchOnly

\* launchModel.create answers or throws (caught): whale_magnet is emitted
LaunchCreateAnswers(c, ok) ==
    /\ c \in LaunchCallIds
    /\ launchCalls[c].stage = "create"
    /\ launches' = IF ok THEN LaunchCreate(launches, launchCalls[c].key, c) ELSE launches
    /\ magnetEvents' = [magnetEvents EXCEPT ![launchCalls[c].key].whale_magnet = @ + 1]
    /\ launchCalls' = EndLaunchCall(c)
    /\ UNCHANGED <<analyzedTokens, trackedTokens, launchStarted, analysesOf, cleared>>
    /\ LaunchOnly

\* analyzeToken of the whale-magnet sweep up to its await of fetchTokenPairs
AnalyzeMagnetToken(key) ==
    /\ launchStarted < MaxLaunchCalls
    /\ launchStarted' = launchStarted + 1
    /\ IF key \in analyzedTokens
       THEN UNCHANGED <<launchCalls, analysesOf>>
       ELSE /\ analysesOf' = [analysesOf EXCEPT ![key] = @ + 1]
            /\ launchCalls' = [i \in LaunchCallIds \cup {launchStarted + 1} |->
                                 IF i = launchStarted + 1
                                 THEN [key |-> key, stage |-> "pairs", pairs |-> <<>>]
                                 ELSE launchCalls[i]]
    /\ UNCHANGED <<analyzedTokens, trackedTokens, launches, cleared, magnetEvents>>
    /\ LaunchOnly

\* the pairs the loop of analyzeToken skips: not a target pair, too old, or
\* not worth an alert
RECURSIVE SkipPairs(_)
SkipPairs(pairs) ==
    IF pairs = <<>> \/ Head(pairs) THEN pairs ELSE SkipPairs(Tail(pairs))

\* the loop of analyzeToken from a list of pairs to its next await of
\* launchModel.updateOne, or to its end
MagnetLoop(c, pairs) ==
    IF SkipPairs(pairs) = <<>>
    THEN /\ launchCalls' = EndLaunchCall(c)
         /\ UNCHANGED <<analyzedTokens, trackedTokens, magnetEvents>>
    ELSE /\ trackedTokens' = trackedTokens \cup {launchCalls[c].key}
         /\ analyzedTokens' = analyzedTokens \cup {launchCalls[c].key}
         /\ magnetEvents' = [magnetEvents EXCEPT ![launchCalls[c].key].whale_magnet = @ + 1]
         /\ launchCalls' = [launchCalls EXCEPT ![c].stage = "upsert",
                                               ![c].pairs = Tail(SkipPairs(pairs))]

\* fetchTokenPairs answers (an empty list when the request failed)
TokenPairsAnswer(c, pairs) ==
    /\ c \in LaunchCallIds
    /\ launchCalls[c].stage = "pairs"
    /\ MagnetLoop(c, pairs)
    /\ UNCHANGED <<launches, launchStarted, analysesOf, cleared>>
    /\ LaunchOnly

\* launchModel.updateOne answers or throws (caught): the loop goes on
LaunchUpsertAnswers(c, ok) ==
    /\ c \in LaunchCallIds
    /\ launchCalls[c].stage = "upsert"
    /\ launches' = IF ok THEN LaunchUpsert(launches, launchCalls[c].key, c) ELSE launches
    /\ MagnetLoop(c, launchCalls[c].pairs)
    /\ UNCHANGED <<launchStarted, analysesOf, cleared>>
    /\ LaunchOnly

\* clearAnalyzedTokens
ClearAnalyzedTokens ==
    /\ analyzedTokens' = {}
    /\ cleared' = TRUE
    /\ magnetEvents' = [key \in TokenKeys |-> [new_launch |-> 0, whale_magnet |-> 0]]
    /\ UNCHANGED <<trackedTokens, launches, launchCalls, launchStarted, analysesOf>>
    /\ LaunchOnly

NextLaunch ==
    \/ \E key \in TokenKeys, isTargetPair \in BOOLEAN, qualifies \in BOOLEAN :
          AnalyzeNewLaunch(key, isTargetPair, qualifies)
    \/ \E c \in LaunchCallIds, ok \in BOOLEAN : LaunchCreateAnswers(c, ok)
    \/ \E key \in TokenKeys : AnalyzeMagnetToken(key)
    \/ \E c \in LaunchCallIds, pairs \in PairLists : TokenPairsAnswer(c, pairs)
    \/ \E c \in LaunchCallIds, ok \in BOOLEAN : LaunchUpsertAnswers(c, ok)
    \/ ClearAnalyzedTokens

SpecLaunch == Init /\ [][NextLaunch]_vars

\* C25: without a call of clearAnalyzedTokens, the analysis of a (chain,
\* token) key is started at most once, whether or not the first analysis
\* qualified for an alert
C25_AnalyzedAtMostOnce == ~cleared => \A key \in TokenKeys : analysesOf[key] <= 1

\* C26: the durable store holds at most one Launch record per (chain, token
\* address), after any sequence of qualifications and clearAnalyzedTokens
C26_LaunchWriteOnce == \A key \in TokenKeys : Cardinality(RecordsOf(key)) <= 1

\* ------------------------------------------------------------------------
\* WhaleMagnetService.fetchWithBackoff
\* ------------------------------------------------------------------------
\* the outcomes of one request: it answers, or it throws an error with this
\* HTTP status
Statuses == {NoStatus, 304, 404, 429, 500, 503}
RequestResults ==
    {[ok |-> TRUE, status |-> NoStatus]} \cup {[ok |-> FALSE, status |-> s] : s \in Statuses}

\* Math.floor(Math.random() * 250): the least and the greatest value
Jitters == {0, 249}

RECURSIVE Pow2(_)
Pow2(n) == IF n = 0 THEN 1 ELSE 2 * Pow2(n - 1)

\* the retry test with every error retried
RetryableAlways(status) == TRUE

\* the negation of: status && status !== 429 && status < 500
Retryable(status) == ~(status # NoStatus /\ status # 429 /\ status < 500)

\* baseDelayMs * Math.pow(2, i) + jitter
BackoffDelay(i, jitter) == baseDelayMs * Pow2(i) + jitter

\* fetchWithBackoff is called: the loop starts and the first request goes out
\* (attempts > 0)
FetchWithBackoff ==
    /\ fetchStage \in {"idle", "done"}
    /\ fetchStage' = "calling"
    /\ attemptIndex' = 0
    /\ attemptLog' = <<>>
    /\ delayLog' = <<>>
    /\ lastError' = NoStatus
    /\ fetchOutcome' = "none"
    /\ BackoffOnly

\* fn() answers or throws: a result is returned, a client error ends the loop
\* and is thrown, any other error starts the timer of the delay
RequestAnswers(result, jitter) ==
    /\ fetchStage = "calling"
    /\ attemptLog' = Append(attemptLog, result)
    /\ IF result.ok
       THEN /\ fetchStage' = "done"
            /\ fetchOutcome' = "returned"
            /\ UNCHANGED <<lastError, delayLog>>
       ELSE /\ lastError' = result.status
            /\ IF Retryable(result.status)
               THEN /\ fetchStage' = "sleeping"
                    /\ delayLog' = Append(delayLog, BackoffDelay(attemptIndex, jitter))
                    /\ UNCHANGED fetchOutcome
               ELSE /\ fetchStage' = "done"
                    /\ fetchOutcome' = "thrown"
                    /\ UNCHANGED delayLog
    /\ UNCHANGED attemptIndex
    /\ BackoffOnly

\* the timer of the delay fires: i++, and either the next request goes out
\* or the loop is over and lastError is thrown
DelayElapsed ==
    /\ fetchStage = "sleeping"
    /\ attemptIndex' = attemptIndex + 1
    /\ IF attemptIndex + 1 < attempts
       THEN /\ fetchStage' = "calling"
            /\ UNCHANGED fetchOutcome
       ELSE /\ fetchStage' = "done"
            /\ fetchOutcome' = "thrown"
    /\ UNCHANGED <<attemptLog, delayLog, lastError>>
    /\ BackoffOnly

NextBackoff ==
    \/ FetchWithBackoff
    \/ \E result \in RequestResults, jitter \in Jitters : RequestAnswers(result, jitter)
    \/ DelayElapsed

SpecBackoff == Init /\ [][NextBackoff]_vars

\* C27: fetchWithBackoff makes at most 5 requests; a result ends the call and
\* is returned; a 4xx other than 429 ends the call; each 429, 5xx or
\* status-less error at attempt i is followed by a delay of
\* baseDelayMs * 2^i plus a jitter below 250 before the next attempt; a call
\* that fails throws the last error
C27_BackoffPolicy ==
    /\ Len(attemptLog) <= attempts
    /\ \A n \in 1..Len(attemptLog) :
          LET r == attemptLog[n]
              retried == r.status = NoStatus \/ r.status = 429 \/ r.status >= 500
          IN  /\ n < Len(attemptLog) => ~r.ok /\ retried
              /\ r.ok => /\ fetchStage = "done"
                         /\ fetchOutcome = "returned"
                         /\ Len(delayLog) = n - 1
              /\ (~r.ok /\ r.status >= 400 /\ r.status < 500 /\ r.status # 429) =>
                    /\ fetchStage = "done"
                    /\ fetchOutcome = "thrown"
                    /\ Len(delayLog) = n - 1
              /\ (~r.ok /\ retried) =>
                    /\ Len(delayLog) >= n
                    /\ delayLog[n] - baseDelayMs * Pow2(n - 1) \in 0..249
    /\ Len(attemptLog) <= Len(delayLog) + 1
    /\ fetchOutcome = "thrown" =>
          /\ attemptLog # <<>>
          /\ ~attemptLog[Len(attemptLog)].ok
          /\ lastError = attemptLog[Len(attemptLog)].status
    /\ fetchOutcome = "returned" <=> (attemptLog # <<>> /\ attemptLog[Len(attemptLog)].ok)
    /\ fetchStage = "done" => fetchOutcome # "none"

\* five requests were made, 429, 5xx and status-less among them, and the call
\* threw the last error after the last delay
C27_Witness ==
    /\ fetchOutcome = "thrown"
    /\ Len(attemptLog) = attempts
    /\ \E a, b, c \in 1..attempts :
          /\ attemptLog[a].status = 429
          /\ attemptLog[b].status = 500
          /\ ~attemptLog[c].ok /\ attemptLog[c].status = NoStatus
    /\ lastError = 503
    /\ delayLog[attempts] = baseDelayMs * 16 + 249

\* ------------------------------------------------------------------------
\* The native-token USD price: WhaleService.updateEthPrice and
\* BnbService.updateBnbPrice
\* ------------------------------------------------------------------------
\* what parseFloat makes of the price field of an answer: NaN for a missing
\* or non-numeric field, otherwise the number
ParsedPrices == {NaN, Infinity, Number(-1), Number(0), Number(299), Number(3001)}

\* a price request throws (timeout, HTTP error, a body without the object
\* the price is read from), or answers with a price field
PriceAnswers == {[ok |-> FALSE, price |-> NaN]} \cup {[ok |-> TRUE, price |-> p] : p \in ParsedPrices}

\* isFinite(x) && x > 0
IsFinitePositive(x) == x.kind = "number" /\ x.value > 0

\* the @Cron tick of updateEthPrice: the request to Etherscan goes out
UpdateEthPrice ==
    /\ ethPriceUpdate = "idle"
    /\ ethPriceUpdate' = "etherscan"
    /\ UNCHANGED <<ethPrice, bnbPrice, bnbPriceUpdate>>
    /\ PriceOnly

\* updateEthPrice stores a price that is finite, positive and new
StoreEthPrice(newEthPrice) ==
    IF IsFinitePositive(newEthPrice) /\ newEthPrice # ethPrice THEN newEthPrice ELSE ethPrice

\* Etherscan answers: an invalid price sends the request to CoinGecko, a
\* valid one is stored; an exception leaves the price
EtherscanAnswers(r) ==
    /\ ethPriceUpdate = "etherscan"
    /\ IF r.ok /\ ~IsFinitePositive(r.price)
       THEN /\ ethPriceUpdate' = "coingecko"
            /\ UNCHANGED ethPrice
       ELSE /\ ethPriceUpdate' = "idle"
            /\ ethPrice' = IF r.ok THEN StoreEthPrice(r.price) ELSE ethPrice
    /\ UNCHANGED <<bnbPrice, bnbPriceUpdate>>
    /\ PriceOnly

\* CoinGecko answers the fallback request of updateEthPrice
EthCoinGeckoAnswers(r) ==
    /\ ethPriceUpdate = "coingecko"
    /\ ethPriceUpdate' = "idle"
    /\ ethPrice' = IF r.ok THEN StoreEthPrice(r.price) ELSE ethPrice
    /\ UNCHANGED <<bnbPrice, bnbPriceUpdate>>
    /\ PriceOnly

\* the @Cron tick of updateBnbPrice: the request to CoinGecko goes out
UpdateBnbPrice ==
    /\ bnbPriceUpdate = "idle"
    /\ bnbPriceUpdate' = "coingecko"
    /\ UNCHANGED <<ethPrice, bnbPrice, ethPriceUpdate>>
    /\ PriceOnly

\* updateBnbPrice stores every price that differs from the stored one
\* (NaN !== x for every x)
StoreBnbPrice(newBnbPrice) ==
    IF newBnbPrice.kind = "NaN" \/ newBnbPrice # bnbPrice THEN newBnbPrice ELSE bnbPrice

\* CoinGecko answers updateBnbPrice
BnbCoinGeckoAnswers(r) ==
    /\ bnbPriceUpdate = "coingecko"
    /\ bnbPriceUpdate' = "idle"
    /\ bnbPrice' = IF r.ok THEN StoreBnbPrice(r.price) ELSE bnbPrice
    /\ UNCHANGED <<ethPrice, ethPriceUpdate>>
    /\ PriceOnly

NextPrice ==
    \/ UpdateEthPrice
    \/ \E r \in PriceAnswers : EtherscanAnswers(r)
    \/ \E r \in PriceAnswers : EthCoinGeckoAnswers(r)
    \/ UpdateBnbPrice
    \/ \E r \in PriceAnswers : BnbCoinGeckoAnswers(r)

SpecPrice == Init /\ [][NextPrice]_vars

\* C28: the stored native-token USD price of every engine is a finite
\* positive number at all times
C28_PriceFinitePositive == IsFinitePositive(ethPrice) /\ IsFinitePositive(bnbPrice)

\* ------------------------------------------------------------------------
\* The whale-address registry: updateWhaleAddress of WhaleService and of
\* BnbService
\* ------------------------------------------------------------------------
BalanceCallIds == DOMAIN balanceCalls

\* getBalance throws, or answers with a balance in native units
BalanceAnswersOf ==
    {[ok |-> FALSE, balance |-> 0]} \cup
    {[ok |-> TRUE, balance |-> b] :
        b \in {minWhaleBalance * UnitsPerCoin - 1, minWhaleBalance * UnitsPerCoin,
               minWhaleBalance * UnitsPerCoin + 1}}

\* the record updateWhaleAddress writes over the existing one
WhaleAddressRecord(existing, balance, time) ==
    [balance |-> balance,
     firstSeen |-> IF existing = NoMonitor THEN time ELSE existing.firstSeen,
     lastActivity |-> time,
     transactionCount |-> (IF existing = NoMonitor THEN 0 ELSE existing.transactionCount) + 1]

\* updateWhaleAddress is called for an address of a processed transaction:
\* getBalance goes out. processWhaleTransaction of WhaleService awaits the
\* call of tx.from before it calls with tx.to; BnbService awaits neither
UpdateWhaleAddress(address) ==
    /\ balanceCallsStarted < MaxBalanceCalls
    /\ balanceCallsStarted' = balanceCallsStarted + 1
    /\ balanceCalls' = [c \in BalanceCallIds \cup {balanceCallsStarted + 1} |->
                          IF c = balanceCallsStarted + 1 THEN address ELSE balanceCalls[c]]
    /\ UNCHANGED <<ethWhaleAddresses, registryNow, balanceChecks>>
    /\ RegistryOnly

\* getBalance answers: a balance of at least minWhaleBalance is written to
\* the registry, a smaller one or an exception leaves the registry as it is
BalanceAnswers(c, r) ==
    /\ c \in BalanceCallIds
    /\ balanceCalls' = [i \in BalanceCallIds \ {c} |-> balanceCalls[i]]
    /\ registryNow' = registryNow + 1
    /\ LET address == balanceCalls[c]
       IN /\ ethWhaleAddresses' =
                IF r.ok /\ AtLeast(FormatEther(r.balance), minWhaleBalance)
                THEN [ethWhaleAddresses EXCEPT ![address] =
                         WhaleAddressRecord(ethWhaleAddresses[address], r.balance, registryNow)]
                ELSE ethWhaleAddresses
          /\ balanceChecks' =
                IF r.ok /\ (ethWhaleAddresses[address] # NoMonitor
                             \/ AtLeast(FormatEther(r.balance), minWhaleBalance))
                THEN [balanceChecks EXCEPT ![address] = @ + 1]
                ELSE balanceChecks
    /\ UNCHANGED balanceCallsStarted
    /\ RegistryOnly

NextRegistry ==
    \/ \E address \in RegistryAddresses : UpdateWhaleAddress(address)
    \/ \E c \in BalanceCallIds, r \in BalanceAnswersOf : BalanceAnswers(c, r)

SpecRegistry == Init /\ [][NextRegistry]_vars

\* C29: a record of the registry has counted every balance check of its
\* address since the one that created it (the count goes up by one with each
\* of them, the balance is the one last fetched), and its first-seen time is
\* the time of its creation
C29_RegistryUpdatedByEveryTransaction ==
    \A a \in RegistryAddresses :
        ethWhaleAddresses[a] # NoMonitor =>
            /\ ethWhaleAddresses[a].transactionCount = balanceChecks[a]
            /\ ethWhaleAddresses[a].firstSeen <= ethWhaleAddresses[a].lastActivity
            /\ AtLeast(FormatEther(ethWhaleAddresses[a].balance), minWhaleBalance)

\* ------------------------------------------------------------------------
\* The WebSocket provider of WhaleService and of BnbService: startMonitoring
\* and reconnect
\* ------------------------------------------------------------------------
ProviderIds == DOMAIN providers

\* the providers with the listeners of startMonitoring attached
Listening == {p \in ProviderIds : providers[p].listeners}

\* a provider emits 'error': its listener calls reconnect, which sets a timer
\* of 3 seconds
ProviderError(p) ==
    /\ p \in Listening
    /\ reconnectTimers < MaxReconnectTimers
    /\ reconnectTimers' = reconnectTimers + 1
    /\ UNCHANGED <<providers, wsProvider, delivered, blockStarts>>
    /\ ProviderOnly

\* the timer of reconnect fires: initializeProviders puts a new
\* WebSocketProvider in wsProvider, and startMonitoring removes the listeners
\* of wsProvider (the new one, which has none) and attaches its listeners to it
ReconnectTimerFires ==
    /\ reconnectTimers > 0
    /\ Cardinality(ProviderIds) < MaxProviders
    /\ reconnectTimers' = reconnectTimers - 1
    /\ LET new == Cardinality(ProviderIds) + 1
       IN /\ wsProvider' = new
          /\ providers' = [p \in ProviderIds \cup {new} |->
                              IF p = new THEN [listeners |-> TRUE, open |-> TRUE]
                              ELSE providers[p]]
    /\ UNCHANGED <<delivered, blockStarts>>
    /\ ProviderOnly

\* the connection of a provider is lost
ProviderCloses(p) ==
    /\ p \in ProviderIds
    /\ providers[p].open
    /\ providers' = [providers EXCEPT ![p].open = FALSE]
    /\ UNCHANGED <<wsProvider, reconnectTimers, delivered, blockStarts>>
    /\ ProviderOnly

\* a provider with an open connection emits 'block' for a chain block: its
\* listener starts processBlockWithCircuitBreaker
ProviderBlock(p, b) ==
    /\ p \in Listening
    /\ providers[p].open
    /\ <<p, b>> \notin delivered
    /\ delivered' = delivered \cup {<<p, b>>}
    /\ blockStarts' = [blockStarts EXCEPT ![b] = @ + 1]
    /\ UNCHANGED <<providers, wsProvider, reconnectTimers>>
    /\ ProviderOnly

NextProvider ==
    \/ \E p \in ProviderIds : ProviderError(p)
    \/ ReconnectTimerFires
    \/ \E p \in ProviderIds : ProviderCloses(p)
    \/ \E p \in ProviderIds, b \in ChainBlocks : ProviderBlock(p, b)

SpecProvider == Init /\ [][NextProvider]_vars

\* C30: at most one provider has the listeners of the engine attached, and
\* the processing of a chain block is started at most once
C30_OneListeningProvider ==
    /\ Cardinality(Listening) <= 1
    /\ \A b \in ChainBlocks : blockStarts[b] <= 1

\* ------------------------------------------------------------------------
\* Further claims on the circuit breaker
\* ------------------------------------------------------------------------
\* C34: at most one cooldown timer is pending at any time, so the breaker is
\* never closed by a timer while a timer armed by a later opening still has
\* time to run
C34_OneCooldownTimer == Len(cooldownTimers) <= 1

\* ------------------------------------------------------------------------
\* Further claims on the token acquisition monitor
\* ------------------------------------------------------------------------
\* C33: once the expiry of a monitor has removed its record, no poll tick of
\* that monitor emits a token_analysis or token_buy_analysis event, a tick
\* that was in flight when the expiry fired included
C33_NoEventAfterExpiry ==
    [][\A k \in ticks : \A token \in k.todo : \A analysed, pairFound \in BOOLEAN :
          (PollReported(k, token, analysed, pairFound)
             /\ TokenEvents(k, token, analysed, pairFound) # {})
          => monitors[k.monitor].timeoutPending]_vars

\* getMonitoredWhales: the addresses of Array.from(whaleAddresses.values())
GetMonitoredWhales == {a \in Addresses : Has(whaleAddresses, a)}

\* C40: getMonitoredWhales lists exactly the addresses that have a monitor
\* record; an address whose monitor has expired is not listed
C40_MonitoredWhalesAreActive ==
    GetMonitoredWhales = {a \in Addresses : Has(whaleMonitor, a)}

\* ------------------------------------------------------------------------
\* Further claims on the slot poll of SolanaService
\* ------------------------------------------------------------------------
\* C35: no slot is handed to processBlock twice, whether poll ticks overlap
\* or a tick fails part-way through its range of slots
C35_SlotProcessedOnce ==
    \A i, j \in DOMAIN processedSlots : i # j => processedSlots[i] # processedSlots[j]

\* C36: at most one interval timer of the slot poll is active, and none is
\* active when monitoring is stopped and no start is in progress
C36_OnePollTimer ==
    /\ Cardinality(pollTimers) <= 1
    /\ (whaleMonitoringInterval = 0 /\ starting = 0) => pollTimers = {}

\* ------------------------------------------------------------------------
\* WhaleMagnetService: createWhaleMagnetEvent, calculateRiskScore,
\* shouldAlertNewLaunch, analyzeBondingCurve, monitorBondingCurves
\* ------------------------------------------------------------------------
\* the thresholds of WhaleMagnetService
LIQUIDITY_THRESHOLD_USD == 5000
BUYS_THRESHOLD_H1 == 15
HONEYPOT_RISK_RATIO == 50
NEW_LAUNCH_THRESHOLD_MINUTES == 120

\* the pairs scored: 1h buys and sells, age (Date.now() - pairCreatedAt) in
\* half minutes, liquidity in USD, 24h price change in percent, on both sides
\* of every threshold
LaunchPairs ==
    [buys : {10, 11, 50, 51}, sells : {0, 1},
     ageHalfMinutes : {118, 120, 239, 240, 241, 480, 2880},
     liquidity : {2499, 2500, 5000, 20000, 50000},
     priceChange : {-101, 0, 51}]

\* createWhaleMagnetEvent: buySellRatio > HONEYPOT_RISK_RATIO && recentSells === 0,
\* where buySellRatio is recentBuys / recentSells, or recentBuys without sells
IsPotentialHoneypot(pair) ==
    /\ pair.sells = 0
    /\ pair.buys > HONEYPOT_RISK_RATIO

\* calculateRiskScore without the penalty of the honeypot pattern
CalculateRiskScoreNoPenalty(pair, isPotentialHoneypot) ==
    Min((IF pair.ageHalfMinutes < 2 * 60 THEN 30
         ELSE IF pair.ageHalfMinutes < 2 * 240 THEN 20
         ELSE IF pair.ageHalfMinutes < 2 * 1440 THEN 10 ELSE 0)
        + (IF pair.liquidity < 5000 THEN 25
           ELSE IF pair.liquidity < 20000 THEN 15
           ELSE IF pair.liquidity < 50000 THEN 5 ELSE 0)
        + (IF Abs(pair.priceChange) > 100 THEN 15
           ELSE IF Abs(pair.priceChange) > 50 THEN 10 ELSE 0),
        100)

\* calculateRiskScore: age, liquidity, honeypot, transaction pattern and
\* volatility, capped at 100
CalculateRiskScore(pair, isPotentialHoneypot) ==
    Min((IF pair.ageHalfMinutes < 2 * 60 THEN 30
         ELSE IF pair.ageHalfMinutes < 2 * 240 THEN 20
         ELSE IF pair.ageHalfMinutes < 2 * 1440 THEN 10 ELSE 0)
        + (IF pair.liquidity < 5000 THEN 25
           ELSE IF pair.liquidity < 20000 THEN 15
           ELSE IF pair.liquidity < 50000 THEN 5 ELSE 0)
        + (IF isPotentialHoneypot THEN 40 ELSE 0)
        + (IF pair.sells = 0 /\ pair.buys > 10 THEN 20 ELSE 0)
        + (IF Abs(pair.priceChange) > 100 THEN 15
           ELSE IF Abs(pair.priceChange) > 50 THEN 10 ELSE 0),
        100)

\* shouldAlertNewLaunch: liquidity >= 5000 * 0.5, buys >= 15 * 0.7, age within
\* NEW_LAUNCH_THRESHOLD_MINUTES, risk score at most 70
ShouldAlertNewLaunch(event) ==
    /\ 2 * event.liquidityUsd >= LIQUIDITY_THRESHOLD_USD
    /\ 10 * event.recentBuys >= BUYS_THRESHOLD_H1 * 7
    /\ event.pairAgeMinutes <= NEW_LAUNCH_THRESHOLD_MINUTES
    /\ event.riskScore <= 70

\* createWhaleMagnetEvent of a new launch, with pairAgeMinutes rounded by
\* Math.round, and the test of analyzeNewLaunch
CreateWhaleMagnetEvent(pair) ==
    LET event == [liquidityUsd |-> pair.liquidity, recentBuys |-> pair.buys,
                  recentSells |-> pair.sells,
                  pairAgeMinutes |-> (pair.ageHalfMinutes + 1) \div 2,
                  isPotentialHoneypot |-> IsPotentialHoneypot(pair),
                  riskScore |-> CalculateRiskScore(pair, IsPotentialHoneypot(pair))]
    IN
    /\ launchScored' = [done |-> TRUE, pair |-> pair, event |-> event,
                        alert |-> ShouldAlertNewLaunch(event)]
    /\ curveStatus' = [done |-> FALSE]
    /\ RiskOnly

\* the tracked tokens analysed: chain, liquidity and market cap in USD, age in
\* minutes, fully diluted value
CurveTokens ==
    [chainId : {"solana", "base", "bsc"}, liquidityUsd : {6900, 6901, 150000},
     pairAgeMinutes : {100, 1440}, fdv : {0, 1000000},
     marketCap : {0, 55000, 68654, 68655, 69000, 99500, 100000, 497500}]

\* detectBondingCurveType
DetectBondingCurveType(tokenEvent) ==
    IF tokenEvent.chainId = "solana" /\ tokenEvent.liquidityUsd < 100000
       /\ tokenEvent.pairAgeMinutes < 1440
    THEN "pump.fun"
    ELSE IF tokenEvent.chainId \in {"ethereum", "base"} /\ tokenEvent.liquidityUsd < 200000
    THEN "moonshot"
    ELSE IF tokenEvent.liquidityUsd < 100000 /\ tokenEvent.fdv < 1000000
    THEN "standard"
    ELSE "unknown"

\* completionThresholds
CompletionThreshold(curveType) ==
    CASE curveType = "pump.fun" -> 69000
      [] curveType = "sunpump" -> 50000
      [] curveType = "moonshot" -> 100000
      [] curveType = "standard" -> 500000

\* Math.round(Math.min((marketCap / threshold) * 100, 100))
ReportedProgress(marketCap, threshold) ==
    IF marketCap >= threshold THEN 100
    ELSE (200 * marketCap + threshold) \div (2 * threshold)

\* analyzeBondingCurve: null for an unknown curve; isCompleted and
\* liquidityMigrated are computed from the progress before it is rounded
AnalyzeBondingCurve(tokenEvent) ==
    LET curveType == DetectBondingCurveType(tokenEvent) IN
    IF curveType = "unknown"
    THEN [null |-> TRUE, progress |-> 0, isCompleted |-> FALSE, liquidityMigrated |-> FALSE]
    ELSE LET threshold == CompletionThreshold(curveType) IN
         [null |-> FALSE,
          progress |-> ReportedProgress(tokenEvent.marketCap, threshold),
          isCompleted |-> tokenEvent.marketCap >= threshold,
          liquidityMigrated |-> /\ tokenEvent.marketCap >= threshold
                                /\ 10 * tokenEvent.liquidityUsd > threshold]

\* monitorBondingCurves for one tracked token: the status, and the events
MonitorBondingCurves(tokenEvent) ==
    LET status == AnalyzeBondingCurve(tokenEvent)
        stored == ~status.null /\ status.progress > 0
    IN
    /\ curveStatus' = [done |-> TRUE, token |-> tokenEvent, status |-> status,
                       progressEvent |-> stored /\ status.progress >= 80 /\ ~status.isCompleted,
                       completedEvent |-> stored /\ status.isCompleted /\ status.liquidityMigrated]
    /\ launchScored' = [done |-> FALSE]
    /\ RiskOnly

NextRisk ==
    \/ \E pair \in LaunchPairs : CreateWhaleMagnetEvent(pair)
    \/ \E tokenEvent \in CurveTokens : MonitorBondingCurves(tokenEvent)

SpecRisk == Init /\ [][NextRisk]_vars

\* C38: a pair with the honeypot pattern never qualifies for a new_launch
\* alert: within the new-launch window of 120 minutes its risk score is at
\* least 80, and beyond the window the age test rejects it
C38_HoneypotNeverAlerts ==
    (launchScored.done /\ launchScored.event.isPotentialHoneypot) =>
        /\ ~launchScored.alert
        /\ launchScored.event.pairAgeMinutes <= NEW_LAUNCH_THRESHOLD_MINUTES
              => launchScored.event.riskScore >= 80

\* a honeypot pair that passes every other test of shouldAlertNewLaunch
C38_Witness ==
    /\ launchScored.done
    /\ launchScored.event.isPotentialHoneypot
    /\ launchScored.pair.ageHalfMinutes = 239
    /\ launchScored.event.pairAgeMinutes = 120
    /\ launchScored.pair.liquidity = 50000
    /\ launchScored.pair.priceChange = 0
    /\ launchScored.event.riskScore = 80

\* C38 as stated: the risk score of a pair with the honeypot pattern exceeds
\* 70 for any liquidity, age and volatility
C38_HoneypotScoreAbove70 ==
    (launchScored.done /\ launchScored.event.isPotentialHoneypot) =>
        launchScored.event.riskScore > 70

\* C39: a bonding curve status has a progress in 0..100, is completed exactly
\* when the progress is 100, has migrated only when completed, and a
\* bonding_curve_progress event never reports a progress of 100
C39_CurveStatusConsistent ==
    (curveStatus.done /\ ~curveStatus.status.null) =>
        /\ curveStatus.status.progress \in 0..100
        /\ curveStatus.status.isCompleted <=> curveStatus.status.progress = 100
        /\ curveStatus.status.liquidityMigrated => curveStatus.status.isCompleted
        /\ curveStatus.progressEvent => curveStatus.status.progress # 100

\* Further claims on the sweeps of WhaleMagnetService
\* C37: since the last clearAnalyzedTokens, at most one whale_magnet event and
\* at most one new_launch event have been emitted for a token key
C37_OneEventPerToken ==
    \A key \in TokenKeys :
        /\ magnetEvents[key].new_launch <= 1
        /\ magnetEvents[key].whale_magnet <= 1

\* ------------------------------------------------------------------------
\* WhaleService: processBlock and the 'pending' listener over the rate
\* limited processor
\* ------------------------------------------------------------------------
\* the tasks added, and the failures of provider.getBlock in a row
MaxJoinTasks == 4
MaxBlockErrors == 2

\* the state of the rate limited processor as a record
Processor ==
    [queue |-> queue, processing |-> processing, loops |-> loops,
     operation |-> operation, future |-> future]

\* rateLimitedProcessor.add on a processor state: the wrapper is queued, and
\* processQueue starts with a first batch unless a drain loop is in progress
AddTask(b) ==
    LET t == Len(b.operation) + 1
        q == Append(b.queue, t)
        ops == Append(b.operation, "queued")
        started == TakeBatch(q, ops, b.loops)
    IN IF ~b.processing
       THEN [queue |-> started.queue, processing |-> TRUE, loops |-> started.loops,
             operation |-> started.operation, future |-> Append(b.future, "pending")]
       ELSE [queue |-> q, processing |-> b.processing, loops |-> b.loops,
             operation |-> ops, future |-> Append(b.future, "pending")]

\* potentialWhaleHashes.map(txHash => rateLimitedProcessor.add(...))
RECURSIVE AddTasks(_, _)
AddTasks(b, n) == IF n = 0 THEN b ELSE AddTasks(AddTask(b), n - 1)

\* block.transactions.slice(0, 50), with MaxBlockTasks for the 50
SliceTransactions(n) == Min(n, MaxBlockTasks)

\* mutant: Promise.all over the promises of the block
PromiseAll(tasks) ==
    IF \E t \in tasks : future[t] = "rejected" THEN "rejected"
    ELSE IF \A t \in tasks : future[t] = "resolved" THEN "fulfilled"
    ELSE "pending"

\* Promise.allSettled over the promises of the block: fulfilled once every
\* promise has settled, never rejected
PromiseAllSettled(tasks) ==
    IF \A t \in tasks : future[t] \in {"resolved", "rejected"} THEN "fulfilled" ELSE "pending"

\* the promise of add() has a rejection handler: Promise.allSettled attaches
\* one in processBlock, the 'pending' listener drops the promise
HasRejectionHandler(t) == origin[t] = "block"

\* everything but the processor, the breaker and the block handler
JoinFrame ==
    UNCHANGED <<varsMonitor, varsHistory, varsPoller, varsAnalyzer, varsPure, varsLaunch, varsBackoff, varsPrice, varsRegistry, varsProvider, varsRisk>>

SetProcessor(b) ==
    /\ queue' = b.queue
    /\ processing' = b.processing
    /\ loops' = b.loops
    /\ operation' = b.operation
    /\ future' = b.future

\* the 'block' listener: processBlockWithCircuitBreaker up to the await of
\* provider.getBlock in processBlock
OnBlock ==
    /\ blockHandler.stage = "idle"
    /\ ~circuitBreakerOpen
    /\ blockHandler' = [stage |-> "getBlock", tasks |-> {}]
    /\ UNCHANGED <<origin, whaleProcessed, blockReport>>
    /\ UNCHANGED <<varsBatch, varsBreaker>>
    /\ JoinFrame

\* provider.getBlock throws (below the limit of the breaker):
\* processBlock rethrows, processBlockWithCircuitBreaker counts the error
GetBlockThrows ==
    /\ blockHandler.stage = "getBlock"
    /\ errorCount < MaxBlockErrors
    /\ errorCount' = errorCount + 1
    /\ blockHandler' = [stage |-> "idle", tasks |-> {}]
    /\ UNCHANGED <<origin, whaleProcessed, blockReport>>
    /\ UNCHANGED <<varsBatch, circuitBreakerOpen, cooldownTimers, handlers, badRun>>
    /\ JoinFrame

\* provider.getBlock gives a block of n transaction hashes: the first ones
\* are added to the processor and processBlock awaits Promise.allSettled
GetBlockGives(n) ==
    LET first == Len(operation) + 1
        last == Len(operation) + SliceTransactions(n)
    IN
    /\ blockHandler.stage = "getBlock"
    /\ last <= MaxJoinTasks
    /\ SetProcessor(AddTasks(Processor, SliceTransactions(n)))
    /\ origin' = origin \o [i \in 1..SliceTransactions(n) |-> "block"]
    /\ blockHandler' = [stage |-> "join", tasks |-> first..last]
    /\ UNCHANGED <<whaleProcessed, blockReport>>
    /\ UNCHANGED varsBreaker
    /\ JoinFrame

\* the 'pending' listener: one task is added, its promise is dropped
PendingTransaction ==
    /\ Len(operation) < MaxJoinTasks
    /\ SetProcessor(AddTask(Processor))
    /\ origin' = Append(origin, "pending")
    /\ UNCHANGED <<blockHandler, whaleProcessed, blockReport>>
    /\ UNCHANGED varsBreaker
    /\ JoinFrame

\* a task of the current batch ends. "throws": provider.getTransaction (or
\* isWhaleTransaction) throws, the wrapper rejects the promise of add().
\* "none": no transaction, or not a whale transaction. "whale":
\* processWhaleTransaction records the transaction. "caught":
\* processWhaleTransaction fails before the record and catches the error.
TransactionTask(t, r) ==
    /\ t \in Tasks
    /\ operation[t] = "running"
    /\ operation' = [operation EXCEPT ![t] = IF r = "throws" THEN "rejected" ELSE "resolved"]
    /\ future' = [future EXCEPT ![t] = Wrapper(IF r = "throws" THEN "rejected" ELSE "resolved")]
    /\ whaleProcessed' = IF r = "whale" THEN whaleProcessed \cup {t} ELSE whaleProcessed
    /\ UNCHANGED <<queue, processing, loops>>
    /\ UNCHANGED <<origin, blockHandler, blockReport>>
    /\ UNCHANGED varsBreaker
    /\ JoinFrame

\* the await of the join ends: processBlock returns and the counter is reset,
\* or it rethrows and the error is counted
BlockJoined ==
    /\ blockHandler.stage = "join"
    /\ PromiseAllSettled(blockHandler.tasks) # "pending"
    /\ IF PromiseAllSettled(blockHandler.tasks) = "fulfilled"
       THEN errorCount' = 0
       ELSE /\ errorCount < MaxBlockErrors
            /\ errorCount' = errorCount + 1
    /\ blockReport' =
          [done |-> TRUE,
           tasks |-> blockHandler.tasks,
           result |-> IF PromiseAllSettled(blockHandler.tasks) = "fulfilled"
                      THEN "returned" ELSE "threw",
           unsettled |-> {t \in blockHandler.tasks : operation[t] \in {"queued", "running"}},
           rejected |-> {t \in blockHandler.tasks : future[t] = "rejected"},
           errorCount |-> errorCount']
    /\ blockHandler' = [stage |-> "idle", tasks |-> {}]
    /\ UNCHANGED <<origin, whaleProcessed>>
    /\ UNCHANGED <<varsBatch, circuitBreakerOpen, cooldownTimers, handlers, badRun>>
    /\ JoinFrame

NextJoin ==
    \/ OnBlock
    \/ GetBlockThrows
    \/ \E n \in 0..(MaxBlockTasks + 1) : GetBlockGives(n)
    \/ PendingTransaction
    \/ \E t \in Tasks, r \in {"throws", "none", "whale", "caught"} : TransactionTask(t, r)
    \/ BlockJoined
    \/ \E l \in loops : AfterBatch(l)
    \/ \E l \in loops : AfterDelay(l)

SpecJoin == Init /\ [][NextJoin]_vars

\* C31: when processBlock ends after its join, it has returned, every task
\* of the block has run to its end whatever the others did, and the error
\* counter is 0 as after any processed block
C31_BestEffortJoin ==
    blockReport.done =>
        /\ blockReport.result = "returned"
        /\ blockReport.unsettled = {}
        /\ blockReport.errorCount = 0

\* a block whose first lookup failed and whose second transaction was recorded
C31_Witness ==
    /\ blockReport.done
    /\ \E t1, t2 \in blockReport.tasks :
          /\ t1 < t2
          /\ t1 \in blockReport.rejected
          /\ t2 \in whaleProcessed

\* C32: a task of the 'pending' listener whose lookup failed has recorded
\* nothing and leaves no rejected promise without a handler
C32_FailedLookupDropped ==
    \A t \in Tasks :
        (origin[t] = "pending" /\ operation[t] = "rejected") =>
            /\ t \notin whaleProcessed
            /\ future[t] = "rejected" => HasRejectionHandler(t)

====
